---- MODULE Spec2Model ----
(***************************************************************************)
(* Model of the data validation engine of data_alchemist:                  *)
(*   - DataValidator (src/lib/validation.ts), the main-thread validator;   *)
(*   - validateDataInWorker (src/lib/workers/data-processor.worker.ts),    *)
(*     the validator the page tries first through the web worker.          *)
(* A JavaScript value that may or may not be list-shaped is a record       *)
(* [kind, items, str, num]; kind is "list", "str", "num", "null" or        *)
(* "object".  A string of the data is the sequence of its characters.  A   *)
(* message built by a template literal is a record [text, strs, nums]      *)
(* holding the literal text and the interpolated values.                   *)
(***************************************************************************)
EXTENDS Integers, Sequences, FiniteSets, TLC

VARIABLES clients, workers, tasks,   \* the three collections handed to the validator
          errors,                    \* DataValidator.errors (the instance field)
          outcome,                   \* "idle" | "returned" | "threw": how the last validateAll ended
          result,                    \* the list the last validateAll returned
          calls,                     \* number of validateAll calls made on the validator
          nextId,                    \* number of issue identifiers generated so far
          workerOutcome,             \* "idle" | "returned": the VALIDATE_DATA round trip
          validationErrors,          \* dataState.validationErrors as set from the worker's reply
          arrays,                    \* the array objects created for this.errors, in creation order
          returned,                  \* per returned call: the array handed out and its issues then
          repeats,                   \* the draws at which Math.random() repeats the value before
          headers,                   \* the header row of the uploaded file
          entityType,                \* "none" | "client" | "worker" | "task": detectEntityType's answer
          mapping,                   \* EnhancedFileParser.createFallbackMapping's mapping
          serviceMapping,            \* the data of OpenAIService.getFallbackHeaderMapping's response
          cell,                      \* a raw cell of an uploaded row: [present, text]
          coercedScalar,             \* the cell coerced as an integer scalar field
          coercedSlots,              \* the cell coerced as AvailableSlots
          coercedPhases,             \* the cell coerced as PreferredPhases
          steps,                     \* the parsing steps that have run
          cells,                     \* the data row of the uploaded file, one text per header
          record,                    \* the record the parser made of the data row
          phasesArg,                 \* the argument handed to parsePhaseRange
          expanded,                  \* what parsePhaseRange returned for it
          workerRef,                 \* useWorker's workerRef.current
          requests,                  \* the messages handed to useWorker.postMessage, in order
          handled,                   \* number of messages self.onmessage has handled
          responses,                 \* the responses the worker has posted, in order
          delivered,                 \* number of responses dispatched to the page's listeners
          listeners,                 \* the handleMessage listeners registered on the worker
          promises,                  \* per request: how the promise of postMessage stands
          pc,                        \* where the page's validateData stands
          isValidating,              \* the page's isValidating state
          isAIProcessing,            \* the page's isAIProcessing state
          aiIndex,                   \* the entity types the AI loop has gone through
          config,                    \* whether a worker and the AI service are available
          runs,                      \* number of validateData runs started
          cache,                     \* DataCache.cache: key -> entry
          now,                       \* Date.now()
          lastOp,                    \* the last DataCache call, when it was made and what it returned
          written                    \* per key: the last set not overwritten, deleted or cleared

validatorVars == <<clients, workers, tasks, errors, outcome, result, calls, nextId,
                   workerOutcome, validationErrors, arrays, returned, repeats>>
headerVars == <<headers, entityType, mapping, serviceMapping>>
cellVars == <<cell, coercedScalar, coercedSlots, coercedPhases>>
ingestVars == <<cells, record>>
rangeVars == <<phasesArg, expanded>>
channelVars == <<workerRef, requests, handled, responses, delivered, listeners, promises>>
pageVars == <<pc, isValidating, isAIProcessing, aiIndex, config, runs>>
cacheVars == <<cache, now, lastOp, written>>
newerVars == <<rangeVars, channelVars, pageVars, cacheVars>>
laterVars == <<ingestVars, newerVars>>
vars == <<validatorVars, headerVars, cellVars, steps, laterVars>>

(***************************************************************************)
(* Bounds                                                                  *)
(***************************************************************************)
MaxRows == 2        \* rows per collection in the row, cross-reference and capacity families
MaxDupRows == 3     \* rows per collection in the identifier family
MaxCalls == 2       \* validateAll calls on one validator

(***************************************************************************)
(* JavaScript values                                                       *)
(***************************************************************************)
List(s) == [kind |-> "list", items |-> s, str |-> <<>>, num |-> 0]
Str(s) == [kind |-> "str", items |-> <<>>, str |-> s, num |-> 0]
Num(n) == [kind |-> "num", items |-> <<>>, str |-> <<>>, num |-> n]
Null == [kind |-> "null", items |-> <<>>, str |-> <<>>, num |-> 0]
Obj == [kind |-> "object", items |-> <<>>, str |-> <<>>, num |-> 0]

Range(s) == {s[i] : i \in DOMAIN s}

isArray(v) == v.kind = "list"
Truthy(s) == s # <<>>

\* the decimal digits and the value of a run of them
DigitChars == <<"0", "1", "2", "3", "4", "5", "6", "7", "8", "9">>
isDigit(c) == \E i \in DOMAIN DigitChars : DigitChars[i] = c
digitValue(c) == (CHOOSE i \in DOMAIN DigitChars : DigitChars[i] = c) - 1
allDigits(s) == s # <<>> /\ \A i \in DOMAIN s : isDigit(s[i])

RECURSIVE digitsValue(_)
digitsValue(ds) ==
  IF ds = <<>> THEN 0
  ELSE digitsValue(SubSeq(ds, 1, Len(ds) - 1)) * 10 + digitValue(ds[Len(ds)])

\* String(n) of an integer
RECURSIVE digitsOf(_)
digitsOf(n) ==
  IF n < 10 THEN <<DigitChars[n + 1]>>
  ELSE digitsOf(n \div 10) \o <<DigitChars[(n % 10) + 1]>>
numberToString(n) == IF n < 0 THEN <<"-">> \o digitsOf(0 - n) ELSE digitsOf(n)

RECURSIVE leadingDigits(_)
leadingDigits(s) ==
  IF s # <<>> /\ isDigit(Head(s)) THEN <<Head(s)>> \o leadingDigits(Tail(s)) ELSE <<>>

\* s.split(',')
RECURSIVE split(_)
split(s) ==
  IF \A i \in DOMAIN s : s[i] # ","
  THEN <<s>>
  ELSE LET k == CHOOSE i \in DOMAIN s : s[i] = "," /\ \A j \in 1..(i - 1) : s[j] # ","
       IN <<SubSeq(s, 1, k - 1)>> \o split(SubSeq(s, k + 1, Len(s)))

\* JSON.parse, on the texts of the model (integers, strings without escapes, true,
\* false, null, arrays of integers and strings, objects of string keys and integer or
\* string values; no comma or colon inside a quoted string): ok tells whether the
\* text parses (JSON.parse raises otherwise), array whether it parses to an array,
\* items the elements of that array.
JSONWhitespace == {" ", "\t", "\n", "\r"}
RECURSIVE jsonTrimStart(_)
jsonTrimStart(s) == IF s # <<>> /\ Head(s) \in JSONWhitespace THEN jsonTrimStart(Tail(s)) ELSE s
RECURSIVE jsonTrimEnd(_)
jsonTrimEnd(s) ==
  IF s # <<>> /\ s[Len(s)] \in JSONWhitespace THEN jsonTrimEnd(SubSeq(s, 1, Len(s) - 1)) ELSE s
jsonTrim(s) == jsonTrimEnd(jsonTrimStart(s))
isJSONInt(s) ==
  LET ds == IF s # <<>> /\ Head(s) = "-" THEN Tail(s) ELSE s
  IN allDigits(ds) /\ (Head(ds) = "0" => Len(ds) = 1)
isJSONString(s) ==
  /\ Len(s) >= 2 /\ s[1] = "\"" /\ s[Len(s)] = "\""
  /\ \A i \in 2..(Len(s) - 1) : s[i] \notin {"\"", "\\", "\n", "\t"}
jsonElement(s) ==
  IF isJSONInt(s)
  THEN IF Head(s) = "-" THEN Num(0 - digitsValue(Tail(s))) ELSE Num(digitsValue(s))
  ELSE Str(SubSeq(s, 2, Len(s) - 1))
isJSONAtom(s) == isJSONInt(s) \/ isJSONString(s)
isJSONMember(s) ==
  \E k \in DOMAIN s :
    /\ s[k] = ":" /\ \A j \in 1..(k - 1) : s[j] # ":"
    /\ isJSONString(jsonTrim(SubSeq(s, 1, k - 1)))
    /\ isJSONAtom(jsonTrim(SubSeq(s, k + 1, Len(s))))
JSONparse(s) ==
  LET t == jsonTrim(s)
      bracketed == Len(t) >= 2 /\ t[1] = "[" /\ t[Len(t)] = "]"
      braced == Len(t) >= 2 /\ t[1] = "{" /\ t[Len(t)] = "}"
      inner == IF bracketed \/ braced THEN SubSeq(t, 2, Len(t) - 1) ELSE <<>>
      pieces == [i \in DOMAIN split(inner) |-> jsonTrim(split(inner)[i])]
      No == [ok |-> FALSE, array |-> FALSE, items |-> <<>>]
      Other == [ok |-> TRUE, array |-> FALSE, items |-> <<>>]
  IN IF bracketed
     THEN IF jsonTrim(inner) = <<>> THEN [ok |-> TRUE, array |-> TRUE, items |-> <<>>]
          ELSE IF \A i \in DOMAIN pieces : isJSONAtom(pieces[i])
               THEN [ok |-> TRUE, array |-> TRUE,
                     items |-> [i \in DOMAIN pieces |-> jsonElement(pieces[i])]]
               ELSE No
     ELSE IF braced
     THEN IF jsonTrim(inner) = <<>> \/ \A i \in DOMAIN pieces : isJSONMember(pieces[i])
          THEN Other ELSE No
     ELSE IF isJSONAtom(t) \/ t \in {<<"t", "r", "u", "e">>, <<"f", "a", "l", "s", "e">>, <<"n", "u", "l", "l">>} THEN Other
     ELSE No

\* mutant: an empty AttributesJSON is let through
JSONParses_emptyPasses(s) == s = <<>> \/ JSONparse(s).ok

\* try { JSON.parse(s) } catch: whether the parse succeeds
JSONParses(s) == JSONparse(s).ok

\* mutant: the pattern without its anchors, /\d+-\d+/
isValidPhaseRange_unanchored(range) ==
  \E k \in 2..(Len(range) - 1) :
    range[k] = "-" /\ isDigit(range[k - 1]) /\ isDigit(range[k + 1])

\* isValidPhaseRange: /^\d+-\d+$/.test(range), on the characters of range: digits,
\* one hyphen, digits, nothing else
isValidPhaseRange(range) ==
  LET first == leadingDigits(range)
      rest == SubSeq(range, Len(first) + 1, Len(range))
  IN /\ first # <<>>
     /\ rest # <<>> /\ Head(rest) = "-"
     /\ allDigits(Tail(rest))

NoField == "undefined"
NoRow == -1

Msg(text) == [text |-> text, strs |-> <<>>, nums |-> <<>>]
MsgS(text, strs) == [text |-> text, strs |-> strs, nums |-> <<>>]
MsgN(text, nums) == [text |-> text, strs |-> <<>>, nums |-> nums]

(***************************************************************************)
(* DataValidator (src/lib/validation.ts)                                   *)
(* The validator object while validateAll runs is the record               *)
(* this = [errors, threw]: threw is set when a statement raised, and the   *)
(* statements after it do not run.                                         *)
(***************************************************************************)

\* Math.random() at the draw-th call of the generator.  The values matter only up
\* to equality: draw k returns the value k, except at the draws in repeats, where
\* the generator returns the value of the draw before once more.
Math_random(draw) == IF draw \in repeats THEN draw - 1 ELSE draw

\* addError: push one issue with the id `${Date.now()}-${Math.random()}`, here the
\* pair of the template's name and the random part.  The
\* addError calls of one validateAll fall within one millisecond, so Date.now() is
\* the same in all of them and the id is told apart by its Math.random() part.
addError(this, type, message, field, rowIndex, entity) ==
  [this EXCEPT !.errors = Append(@,
     [id |-> <<"random", Math_random(nextId + Len(this.errors) + 1)>>, type |-> type,
      message |-> message, field |-> field, rowIndex |-> rowIndex, entity |-> entity])]

\* if (cond) { this.addError(...) }
check(cond, this, type, message, field, rowIndex, entity) ==
  IF cond THEN addError(this, type, message, field, rowIndex, entity) ELSE this

\* mutant: the bounds 1 and 5 are themselves rejected
priorityOutOfRange_exclusive(level) == level <= 1 \/ level >= 5

\* client.PriorityLevel < 1 || client.PriorityLevel > 5 (line 47)
priorityOutOfRange(level) == level < 1 \/ level > 5

\* the body of the forEach callback of validateClients, for the row at index (1-based)
validateClientRow(this, clientIds, index) ==
  LET client == clients[index]
      e1 == check(~Truthy(client.ClientID),
                  this, "error", Msg("Missing ClientID"), "ClientID", index - 1, "client")
      e2 == check(~Truthy(client.ClientName),
                  e1, "error", Msg("Missing ClientName"), "ClientName", index - 1, "client")
      e3 == check(client.ClientID \in clientIds,
                  e2, "error", MsgS("Duplicate ClientID: ", <<client.ClientID>>), "ClientID", index - 1, "client")
      e4 == check(priorityOutOfRange(client.PriorityLevel),
                  e3, "error", Msg("PriorityLevel must be between 1-5"), "PriorityLevel", index - 1, "client")
      e5 == check(~isArray(client.RequestedTaskIDs),
                  e4, "error", Msg("RequestedTaskIDs must be an array"), "RequestedTaskIDs", index - 1, "client")
      e6 == check(client.AttributesJSON.kind = "str" /\ ~JSONParses(client.AttributesJSON.str),
                  e5, "error", Msg("Invalid JSON in AttributesJSON"), "AttributesJSON", index - 1, "client")
  IN e6

RECURSIVE validateClientsFrom(_, _, _)
validateClientsFrom(this, clientIds, index) ==
  IF index > Len(clients) \/ this.threw THEN this
  ELSE validateClientsFrom(validateClientRow(this, clientIds, index),
                           clientIds \cup {clients[index].ClientID}, index + 1)

\* mutant: a row without ClientID gets that one issue and no further check
validateClients_shortCircuit(this) ==
  LET RECURSIVE from(_, _, _)
      from(t, clientIds, index) ==
        IF index > Len(clients) THEN t
        ELSE from(IF ~Truthy(clients[index].ClientID)
                  THEN addError(t, "error", Msg("Missing ClientID"), "ClientID",
                                index - 1, "client")
                  ELSE validateClientRow(t, clientIds, index),
                  clientIds \cup {clients[index].ClientID}, index + 1)
  IN from(this, {}, 1)

\* mutant: the identifier is added to the set before the duplicate test
validateClients_addBeforeHas(this) ==
  LET RECURSIVE from(_, _, _)
      from(t, clientIds, index) ==
        IF index > Len(clients) THEN t
        ELSE from(validateClientRow(t, clientIds \cup {clients[index].ClientID}, index),
                  clientIds \cup {clients[index].ClientID}, index + 1)
  IN from(this, {}, 1)

validateClients(this) == validateClientsFrom(this, {}, 1)

\* worker.AvailableSlots.length < worker.MaxLoadPerPhase (line 108): the length of a
\* list or of a string; undefined for a number (undefined < n is false); reading
\* .length of null or undefined raises a TypeError
slotsLengthRaises(worker) == worker.AvailableSlots.kind = "null"
\* mutant: a worker whose load equals its number of slots is warned about too
slotsLengthBelowLoad_orEqual(worker) ==
  CASE worker.AvailableSlots.kind = "list" ->
         Len(worker.AvailableSlots.items) <= worker.MaxLoadPerPhase
    [] worker.AvailableSlots.kind = "str" ->
         Len(worker.AvailableSlots.str) <= worker.MaxLoadPerPhase
    [] OTHER -> FALSE

slotsLengthBelowLoad(worker) ==
  CASE worker.AvailableSlots.kind = "list" ->
         Len(worker.AvailableSlots.items) < worker.MaxLoadPerPhase
    [] worker.AvailableSlots.kind = "str" ->
         Len(worker.AvailableSlots.str) < worker.MaxLoadPerPhase
    [] OTHER -> FALSE

IsInteger(n) == n \in Int
invalidSlot(slot) == ~IsInteger(slot) \/ slot < 1

validateWorkerRow(this, workerIds, index) ==
  LET worker == workers[index]
      e1 == check(~Truthy(worker.WorkerID),
                  this, "error", Msg("Missing WorkerID"), "WorkerID", index - 1, "worker")
      e2 == check(~Truthy(worker.WorkerName),
                  e1, "error", Msg("Missing WorkerName"), "WorkerName", index - 1, "worker")
      e3 == check(worker.WorkerID \in workerIds,
                  e2, "error", MsgS("Duplicate WorkerID: ", <<worker.WorkerID>>), "WorkerID", index - 1, "worker")
      e4 == check(~isArray(worker.Skills),
                  e3, "error", Msg("Skills must be an array"), "Skills", index - 1, "worker")
      e5 == IF ~isArray(worker.AvailableSlots)
            THEN addError(e4, "error", Msg("AvailableSlots must be an array"),
                          "AvailableSlots", index - 1, "worker")
            ELSE check(Len(SelectSeq(worker.AvailableSlots.items, invalidSlot)) > 0,
                       e4, "error", Msg("AvailableSlots must contain positive integers"),
                       "AvailableSlots", index - 1, "worker")
      e6 == check(~IsInteger(worker.MaxLoadPerPhase) \/ worker.MaxLoadPerPhase < 1,
                  e5, "error", Msg("MaxLoadPerPhase must be a positive integer"), "MaxLoadPerPhase", index - 1, "worker")
      e7 == IF slotsLengthRaises(worker) THEN [e6 EXCEPT !.threw = TRUE]
            ELSE check(slotsLengthBelowLoad(worker),
                       e6, "warning", Msg("Worker has more max load than available slots"),
                       "MaxLoadPerPhase", index - 1, "worker")
  IN e7

RECURSIVE validateWorkersFrom(_, _, _)
validateWorkersFrom(this, workerIds, index) ==
  IF index > Len(workers) \/ this.threw THEN this
  ELSE validateWorkersFrom(validateWorkerRow(this, workerIds, index),
                           workerIds \cup {workers[index].WorkerID}, index + 1)

validateWorkers(this) == validateWorkersFrom(this, {}, 1)

validateTaskRow(this, taskIds, index) ==
  LET task == tasks[index]
      e1 == check(~Truthy(task.TaskID),
                  this, "error", Msg("Missing TaskID"), "TaskID", index - 1, "task")
      e2 == check(~Truthy(task.TaskName),
                  e1, "error", Msg("Missing TaskName"), "TaskName", index - 1, "task")
      e3 == check(task.TaskID \in taskIds,
                  e2, "error", MsgS("Duplicate TaskID: ", <<task.TaskID>>), "TaskID", index - 1, "task")
      e4 == check(~IsInteger(task.Duration) \/ task.Duration < 1,
                  e3, "error", Msg("Duration must be a positive integer"), "Duration", index - 1, "task")
      e5 == check(~isArray(task.RequiredSkills),
                  e4, "error", Msg("RequiredSkills must be an array"), "RequiredSkills", index - 1, "task")
      e6 == check(~IsInteger(task.MaxConcurrent) \/ task.MaxConcurrent < 1,
                  e5, "error", Msg("MaxConcurrent must be a positive integer"), "MaxConcurrent", index - 1, "task")
      e7 == IF task.PreferredPhases.kind = "str"
            THEN check(~isValidPhaseRange(task.PreferredPhases.str),
                       e6, "error", Msg("Invalid PreferredPhases format"),
                       "PreferredPhases", index - 1, "task")
            ELSE check(~isArray(task.PreferredPhases),
                       e6, "error", Msg("PreferredPhases must be an array or range string"),
                       "PreferredPhases", index - 1, "task")
  IN e7

RECURSIVE validateTasksFrom(_, _, _)
validateTasksFrom(this, taskIds, index) ==
  IF index > Len(tasks) \/ this.threw THEN this
  ELSE validateTasksFrom(validateTaskRow(this, taskIds, index),
                         taskIds \cup {tasks[index].TaskID}, index + 1)

validateTasks(this) == validateTasksFrom(this, {}, 1)

\* Array.prototype.flatMap(w => w.Skills): a list is spliced in, any other value is
\* appended as one element (a string is kept, null or a number is an element that
\* equals no skill name)
RECURSIVE flatMapSkills(_)
flatMapSkills(ws) ==
  IF ws = <<>> THEN <<>>
  ELSE LET v == Head(ws).Skills
       IN (CASE v.kind = "list" -> v.items
             [] v.kind = "str" -> <<v.str>>
             [] OTHER -> <<>>) \o flatMapSkills(Tail(ws))

validateCrossClient(this, taskIds, index) ==
  LET client == clients[index]
      unknown(taskId) == taskId \notin taskIds
  IN IF isArray(client.RequestedTaskIDs)
     THEN LET invalidTasks == SelectSeq(client.RequestedTaskIDs.items, unknown)
          IN IF Len(invalidTasks) > 0
             THEN addError(this, "error", MsgS("Unknown task references: ", invalidTasks),
                           "RequestedTaskIDs", index - 1, "client")
             ELSE this
     ELSE this

RECURSIVE validateCrossClientsFrom(_, _, _)
validateCrossClientsFrom(this, taskIds, index) ==
  IF index > Len(clients) \/ this.threw THEN this
  ELSE validateCrossClientsFrom(validateCrossClient(this, taskIds, index), taskIds, index + 1)

validateCrossTask(this, allWorkerSkills, index) ==
  LET task == tasks[index]
      unavailable(skill) == skill \notin allWorkerSkills
  IN IF isArray(task.RequiredSkills)
     THEN LET unavailableSkills == SelectSeq(task.RequiredSkills.items, unavailable)
          IN IF Len(unavailableSkills) > 0
             THEN addError(this, "error",
                           MsgS("No workers have required skills: ", unavailableSkills),
                           "RequiredSkills", index - 1, "task")
             ELSE this
     ELSE this

RECURSIVE validateCrossTasksFrom(_, _, _)
validateCrossTasksFrom(this, allWorkerSkills, index) ==
  IF index > Len(tasks) \/ this.threw THEN this
  ELSE validateCrossTasksFrom(validateCrossTask(this, allWorkerSkills, index),
                              allWorkerSkills, index + 1)

\* mutant: only the first task's TaskID is known
validateCrossReferences_firstTask(this) ==
  LET taskIds == {tasks[i].TaskID : i \in DOMAIN tasks \cap {1}}
      allWorkerSkills == Range(flatMapSkills(workers))
  IN validateCrossTasksFrom(validateCrossClientsFrom(this, taskIds, 1), allWorkerSkills, 1)

\* mutant: only the first worker's skills are collected
validateCrossReferences_firstWorker(this) ==
  LET taskIds == {tasks[i].TaskID : i \in DOMAIN tasks}
      allWorkerSkills == Range(flatMapSkills([i \in DOMAIN workers \cap {1} |-> workers[i]]))
  IN validateCrossTasksFrom(validateCrossClientsFrom(this, taskIds, 1), allWorkerSkills, 1)

validateCrossReferences(this) ==
  LET taskIds == {tasks[i].TaskID : i \in DOMAIN tasks}
      allWorkerSkills == Range(flatMapSkills(workers))
  IN validateCrossTasksFrom(validateCrossClientsFrom(this, taskIds, 1), allWorkerSkills, 1)

(***************************************************************************)
(* A JavaScript Map is the sequence of its <<key, value>> entries in       *)
(* insertion order; set() on a present key keeps the key's position.       *)
(***************************************************************************)
MapHas(m, k) == \E i \in DOMAIN m : m[i][1] = k
MapGet(m, k) == m[CHOOSE i \in DOMAIN m : m[i][1] = k][2]
MapSet(m, k, v) ==
  IF MapHas(m, k) THEN [i \in DOMAIN m |-> IF m[i][1] = k THEN <<k, v>> ELSE m[i]]
  ELSE Append(m, <<k, v>>)
\* map.get(k) || 0
MapGetOr0(m, k) == IF MapHas(m, k) THEN MapGet(m, k) ELSE 0

\* forEach over one list of phases: map.set(phase, (map.get(phase) || 0) + amount)
RECURSIVE accumulate(_, _, _)
accumulate(m, phases, amount) ==
  IF phases = <<>> THEN m
  ELSE accumulate(MapSet(m, Head(phases), MapGetOr0(m, Head(phases)) + amount),
                  Tail(phases), amount)

RECURSIVE phaseSlotsFrom(_, _)
phaseSlotsFrom(m, ws) ==
  IF ws = <<>> THEN m
  ELSE LET worker == Head(ws)
       IN phaseSlotsFrom(IF isArray(worker.AvailableSlots)
                         THEN accumulate(m, worker.AvailableSlots.items, worker.MaxLoadPerPhase)
                         ELSE m, Tail(ws))

phaseSlots == phaseSlotsFrom(<<>>, workers)

\* mutant: a task with a string PreferredPhases puts its Duration on phase 1
RECURSIVE phaseDemandFrom_countStrings(_, _)
phaseDemandFrom_countStrings(m, ts) ==
  IF ts = <<>> THEN m
  ELSE LET task == Head(ts)
       IN phaseDemandFrom_countStrings(
            IF isArray(task.PreferredPhases)
            THEN accumulate(m, task.PreferredPhases.items, task.Duration)
            ELSE IF task.PreferredPhases.kind = "str"
                 THEN accumulate(m, <<1>>, task.Duration)
                 ELSE m, Tail(ts))

RECURSIVE phaseDemandFrom(_, _)
phaseDemandFrom(m, ts) ==
  IF ts = <<>> THEN m
  ELSE LET task == Head(ts)
       IN phaseDemandFrom(IF isArray(task.PreferredPhases)
                          THEN accumulate(m, task.PreferredPhases.items, task.Duration)
                          ELSE m, Tail(ts))

phaseDemand == phaseDemandFrom(<<>>, tasks)

\* mutant: a phase whose demand equals its supply is reported too
oversaturated_orEqual(demand, available) == demand >= available

oversaturated(demand, available) == demand > available

RECURSIVE capacityFrom(_, _)
capacityFrom(this, entries) ==
  IF entries = <<>> \/ this.threw THEN this
  ELSE LET phase == Head(entries)[1]
           demand == Head(entries)[2]
           available == MapGetOr0(phaseSlots, phase)
       IN capacityFrom(IF oversaturated(demand, available)
                       THEN addError(this, "warning",
                                     MsgN("Phase is oversaturated", <<phase, demand, available>>),
                                     NoField, NoRow, "task")
                       ELSE this, Tail(entries))

validateCapacityConstraints(this) == capacityFrom(this, phaseDemand)

\* validateAll: this.errors = [] and the five passes in order (a pass entered
\* after a statement raised does nothing: the exception has ended the call)
\* mutant: the capacity pass runs before the cross-reference pass
validateAll_capacityFirst ==
  validateCrossReferences(validateCapacityConstraints(validateTasks(validateWorkers(validateClients([errors |-> <<>>, threw |-> FALSE])))))

\* mutant: this.errors is not reset, the call appends to the previous call's issues
validateAll_noReset ==
  validateCapacityConstraints(validateCrossReferences(validateTasks(validateWorkers(validateClients([errors |-> errors, threw |-> FALSE])))))

\* mutant: the array of the previous call is emptied and filled again
resetErrors_inPlace == [arrays EXCEPT ![Len(arrays)] = <<>>]

\* this.errors = [] (line 17): a new array object; the one returned before is
\* no longer referenced by the validator
resetErrors == Append(arrays, <<>>)

validateAll ==
  validateCapacityConstraints(validateCrossReferences(validateTasks(validateWorkers(validateClients([errors |-> <<>>, threw |-> FALSE])))))

(***************************************************************************)
(* validateDataInWorker (src/lib/workers/data-processor.worker.ts)         *)
(***************************************************************************)
push(errs, id, message, field, rowIndex, entity) ==
  Append(errs, [id |-> id, type |-> "error", message |-> message, field |-> field,
                rowIndex |-> rowIndex, entity |-> entity])

\* if (cond) { errors.push(...) }
pushIf(cond, errs, id, message, field, rowIndex, entity) ==
  IF cond THEN push(errs, id, message, field, rowIndex, entity) ELSE errs

workerClientRow(errs, clientIds, index) ==
  LET client == clients[index]
      e1 == pushIf(~Truthy(client.ClientID),
                   errs, <<"client", index - 1, "id">>, Msg("Missing ClientID"), "ClientID", index - 1, "client")
      e2 == pushIf(client.ClientID \in clientIds,
                   e1, <<"client", index - 1, "duplicate">>, MsgS("Duplicate ClientID: ", <<client.ClientID>>), "ClientID", index - 1, "client")
      e3 == pushIf(client.PriorityLevel < 1 \/ client.PriorityLevel > 5,
                   e2, <<"client", index - 1, "priority">>, Msg("PriorityLevel must be between 1-5"), "PriorityLevel", index - 1, "client")
  IN e3

RECURSIVE workerClientsFrom(_, _, _)
workerClientsFrom(errs, clientIds, index) ==
  IF index > Len(clients) THEN errs
  ELSE workerClientsFrom(workerClientRow(errs, clientIds, index),
                         clientIds \cup {clients[index].ClientID}, index + 1)

workerWorkerRow(errs, workerIds, index) ==
  LET worker == workers[index]
      e1 == pushIf(~Truthy(worker.WorkerID),
                   errs, <<"worker", index - 1, "id">>, Msg("Missing WorkerID"), "WorkerID", index - 1, "worker")
      e2 == pushIf(worker.WorkerID \in workerIds,
                   e1, <<"worker", index - 1, "duplicate">>, MsgS("Duplicate WorkerID: ", <<worker.WorkerID>>), "WorkerID", index - 1, "worker")
      e3 == pushIf(~isArray(worker.Skills),
                   e2, <<"worker", index - 1, "skills">>, Msg("Skills must be an array"), "Skills", index - 1, "worker")
  IN e3

RECURSIVE workerWorkersFrom(_, _, _)
workerWorkersFrom(errs, workerIds, index) ==
  IF index > Len(workers) THEN errs
  ELSE workerWorkersFrom(workerWorkerRow(errs, workerIds, index),
                         workerIds \cup {workers[index].WorkerID}, index + 1)

workerTaskRow(errs, taskIds, index) ==
  LET task == tasks[index]
      e1 == pushIf(~Truthy(task.TaskID),
                   errs, <<"task", index - 1, "id">>, Msg("Missing TaskID"), "TaskID", index - 1, "task")
      e2 == pushIf(task.TaskID \in taskIds,
                   e1, <<"task", index - 1, "duplicate">>, MsgS("Duplicate TaskID: ", <<task.TaskID>>), "TaskID", index - 1, "task")
      e3 == pushIf(task.Duration < 1,
                   e2, <<"task", index - 1, "duration">>, Msg("Duration must be positive"), "Duration", index - 1, "task")
  IN e3

RECURSIVE workerTasksFrom(_, _, _)
workerTasksFrom(errs, taskIds, index) ==
  IF index > Len(tasks) THEN errs
  ELSE workerTasksFrom(workerTaskRow(errs, taskIds, index),
                       taskIds \cup {tasks[index].TaskID}, index + 1)

validateDataInWorker ==
  workerTasksFrom(workerWorkersFrom(workerClientsFrom(<<>>, {}, 1), {}, 1), {}, 1)

(***************************************************************************)
(* Strings of the file parsers.  A string whose characters the code looks  *)
(* at is the sequence of its characters.                                   *)
(***************************************************************************)
Uppers == <<"A", "B", "C", "D", "E", "F", "G", "H", "I", "J", "K", "L", "M", "N", "O", "P", "Q", "R", "S", "T", "U", "V", "W", "X", "Y", "Z">>
Lowers == <<"a", "b", "c", "d", "e", "f", "g", "h", "i", "j", "k", "l", "m", "n", "o", "p", "q", "r", "s", "t", "u", "v", "w", "x", "y", "z">>
WhitespaceChars == {" ", "\t", "\n"}

toLowerCaseChar(c) ==
  IF \E i \in DOMAIN Uppers : Uppers[i] = c
  THEN Lowers[CHOOSE i \in DOMAIN Uppers : Uppers[i] = c]
  ELSE c
\* String.prototype.toLowerCase
toLowerCase(s) == [i \in DOMAIN s |-> toLowerCaseChar(s[i])]

isSeparator(c) == c = "_" \/ c \in WhitespaceChars
\* s.replace(/[_\s]/g, '')
stripSeparators(s) == SelectSeq(s, LAMBDA c : ~isSeparator(c))

(***************************************************************************)
(* Schema inference (src/lib/file-parser.ts, EnhancedFileParser,           *)
(* OpenAIService)                                                          *)
(***************************************************************************)
\* the strings the three tests of detectEntityType look up in headerSet
clientIndicators == {<<"c", "l", "i", "e", "n", "t", "i", "d">>, <<"c", "l", "i", "e", "n", "t", "_", "i", "d">>, <<"p", "r", "i", "o", "r", "i", "t", "y", "l", "e", "v", "e", "l">>, <<"r", "e", "q", "u", "e", "s", "t", "e", "d", "t", "a", "s", "k", "i", "d", "s">>}
workerIndicators == {<<"w", "o", "r", "k", "e", "r", "i", "d">>, <<"w", "o", "r", "k", "e", "r", "_", "i", "d">>, <<"s", "k", "i", "l", "l", "s">>, <<"a", "v", "a", "i", "l", "a", "b", "l", "e", "s", "l", "o", "t", "s">>,
                     <<"m", "a", "x", "l", "o", "a", "d", "p", "e", "r", "p", "h", "a", "s", "e">>, <<"w", "o", "r", "k", "e", "r", "g", "r", "o", "u", "p">>}
taskIndicators == {<<"t", "a", "s", "k", "i", "d">>, <<"t", "a", "s", "k", "_", "i", "d">>, <<"d", "u", "r", "a", "t", "i", "o", "n">>, <<"r", "e", "q", "u", "i", "r", "e", "d", "s", "k", "i", "l", "l", "s">>,
                   <<"p", "r", "e", "f", "e", "r", "r", "e", "d", "p", "h", "a", "s", "e", "s">>, <<"m", "a", "x", "c", "o", "n", "c", "u", "r", "r", "e", "n", "t">>}

\* mutant: the worker test runs before the client test
detectEntityType_workerFirst(hs) ==
  LET headerSet == {toLowerCase(hs[i]) : i \in DOMAIN hs}
  IN IF headerSet \cap workerIndicators # {} THEN "worker"
     ELSE IF headerSet \cap clientIndicators # {} THEN "client"
     ELSE IF headerSet \cap taskIndicators # {} THEN "task"
     ELSE "client"

\* detectEntityType: headerSet = new Set(headers.map(h => h.toLowerCase())) and
\* the three groups of headerSet.has(..) tests in order
detectEntityType(hs) ==
  LET headerSet == {toLowerCase(hs[i]) : i \in DOMAIN hs}
  IN IF headerSet \cap clientIndicators # {} THEN "client"
     ELSE IF headerSet \cap workerIndicators # {} THEN "worker"
     ELSE IF headerSet \cap taskIndicators # {} THEN "task"
     ELSE "client"

getExpectedHeaders(type) ==
  CASE type = "client" ->
         <<<<"C", "l", "i", "e", "n", "t", "I", "D">>, <<"C", "l", "i", "e", "n", "t", "N", "a", "m", "e">>, <<"P", "r", "i", "o", "r", "i", "t", "y", "L", "e", "v", "e", "l">>, <<"R", "e", "q", "u", "e", "s", "t", "e", "d", "T", "a", "s", "k", "I", "D", "s">>,
           <<"G", "r", "o", "u", "p", "T", "a", "g">>, <<"A", "t", "t", "r", "i", "b", "u", "t", "e", "s", "J", "S", "O", "N">>>>
    [] type = "worker" ->
         <<<<"W", "o", "r", "k", "e", "r", "I", "D">>, <<"W", "o", "r", "k", "e", "r", "N", "a", "m", "e">>, <<"S", "k", "i", "l", "l", "s">>, <<"A", "v", "a", "i", "l", "a", "b", "l", "e", "S", "l", "o", "t", "s">>,
           <<"M", "a", "x", "L", "o", "a", "d", "P", "e", "r", "P", "h", "a", "s", "e">>, <<"W", "o", "r", "k", "e", "r", "G", "r", "o", "u", "p">>, <<"Q", "u", "a", "l", "i", "f", "i", "c", "a", "t", "i", "o", "n", "L", "e", "v", "e", "l">>>>
    [] type = "task" ->
         <<<<"T", "a", "s", "k", "I", "D">>, <<"T", "a", "s", "k", "N", "a", "m", "e">>, <<"C", "a", "t", "e", "g", "o", "r", "y">>, <<"D", "u", "r", "a", "t", "i", "o", "n">>,
           <<"R", "e", "q", "u", "i", "r", "e", "d", "S", "k", "i", "l", "l", "s">>, <<"P", "r", "e", "f", "e", "r", "r", "e", "d", "P", "h", "a", "s", "e", "s">>, <<"M", "a", "x", "C", "o", "n", "c", "u", "r", "r", "e", "n", "t">>>>
    [] OTHER -> <<>>

\* mutant: headers are compared in lowercase only, separators kept
normalizeHeader_lowerOnly(s) == toLowerCase(s)

\* header.toLowerCase().replace(/[_\s]/g, '')
normalizeHeader(s) == stripSeparators(toLowerCase(s))

\* headers.find(header => normalized header === normalized expected): the first
\* such header, or undefined (found FALSE)
findHeader(hs, expected) ==
  LET hits == {i \in DOMAIN hs : normalizeHeader(hs[i]) = normalizeHeader(expected)}
  IN IF hits = {} THEN [found |-> FALSE, header |-> <<>>]
     ELSE [found |-> TRUE, header |-> hs[CHOOSE i \in hits : \A j \in hits : i <= j]]

\* if (found) { mapping[expected] = found }: an empty string is falsy too
RECURSIVE mapExpected(_, _, _)
mapExpected(m, hs, expectedHeaders) ==
  IF expectedHeaders = <<>> THEN m
  ELSE LET expected == Head(expectedHeaders)
           f == findHeader(hs, expected)
       IN mapExpected(IF f.found /\ f.header # <<>> THEN Append(m, <<expected, f.header>>) ELSE m,
                      hs, Tail(expectedHeaders))

\* EnhancedFileParser.createFallbackMapping: the mapping object as the sequence
\* of its <<expected, provided>> entries in insertion order
createFallbackMapping(hs, type) == mapExpected(<<>>, hs, getExpectedHeaders(type))

\* OpenAIService.getFallbackHeaderMapping: its own copy of the loop, the mapping
\* wrapped in an AIResponse
serviceFindHeader(hs, expected) ==
  LET hits == {i \in DOMAIN hs : normalizeHeader(hs[i]) = normalizeHeader(expected)}
  IN IF hits = {} THEN [found |-> FALSE, header |-> <<>>]
     ELSE [found |-> TRUE, header |-> hs[CHOOSE i \in hits : \A j \in hits : i <= j]]

RECURSIVE serviceMapExpected(_, _, _)
serviceMapExpected(m, hs, expectedHeaders) ==
  IF expectedHeaders = <<>> THEN m
  ELSE LET expected == Head(expectedHeaders)
           f == serviceFindHeader(hs, expected)
       IN serviceMapExpected(IF f.found /\ f.header # <<>>
                             THEN Append(m, <<expected, f.header>>) ELSE m,
                             hs, Tail(expectedHeaders))

getFallbackHeaderMapping(hs, type) ==
  [success |-> TRUE, data |-> serviceMapExpected(<<>>, hs, getExpectedHeaders(type)),
   message |-> "Headers mapped using fallback logic"]

(***************************************************************************)
(* Field coercion (src/lib/file-parser.ts; EnhancedFileParser has the same *)
(* functions).  A cell is [present, text]: a column the row lacks is not   *)
(* present.  The cell texts of the model are decimal: no 0x prefix, no     *)
(* fraction or exponent, and no comma inside a quoted JSON string.         *)
(***************************************************************************)
NaN == [kind |-> "nan", items |-> <<>>, str |-> <<>>, num |-> 0]

RECURSIVE trimStart(_)
trimStart(s) == IF s # <<>> /\ Head(s) \in WhitespaceChars THEN trimStart(Tail(s)) ELSE s
RECURSIVE trimEnd(_)
trimEnd(s) ==
  IF s # <<>> /\ s[Len(s)] \in WhitespaceChars THEN trimEnd(SubSeq(s, 1, Len(s) - 1)) ELSE s
\* String.prototype.trim
trim(s) == trimEnd(trimStart(s))

\* a column the row lacks
Absent == [present |-> FALSE, text |-> <<>>]

\* getValue: the trimmed text of the row's value under the first key it has, ''
\* when it has none of the keys
getValue(c) == IF c.present THEN trim(c.text) ELSE <<>>

\* parseInt(s): leading whitespace, an optional sign, then the longest run of
\* digits; NaN when there is no digit
parseInt(s) ==
  LET t == trimStart(s)
      signed == t # <<>> /\ Head(t) \in {"-", "+"}
      ds == leadingDigits(IF signed THEN Tail(t) ELSE t)
  IN IF ds = <<>> THEN NaN
     ELSE IF signed /\ Head(t) = "-" THEN Num(0 - digitsValue(ds)) ELSE Num(digitsValue(ds))

\* v || 1: NaN and 0 are falsy
orOne(v) == IF v.kind = "nan" \/ v.num = 0 THEN Num(1) ELSE v

\* parseInt(this.getValue(row, [..])) || 1: the integer scalar fields
coerceScalar(c) == orOne(parseInt(getValue(c)))

\* Number(x) of a parsed element: a number is itself; a string is 0 when blank,
\* its value when a decimal integer, NaN otherwise
Number(x) ==
  IF x.kind = "num" THEN x
  ELSE LET t == trim(x.str)
           signed == t # <<>> /\ Head(t) \in {"-", "+"}
           ds == IF signed THEN Tail(t) ELSE t
       IN IF t = <<>> THEN Num(0)
          ELSE IF ~allDigits(ds) THEN NaN
          ELSE IF signed /\ Head(t) = "-" THEN Num(0 - digitsValue(ds)) ELSE Num(digitsValue(ds))

\* .filter(n => !isNaN(n)) on a list of numbers
dropNaN(vs) ==
  LET kept == SelectSeq(vs, LAMBDA v : v.kind # "nan")
  IN [i \in DOMAIN kept |-> kept[i].num]

\* value.split(',').map(item => parseInt(item.trim())).filter(n => !isNaN(n))
splitInts(value) == dropNaN([i \in DOMAIN split(value) |-> parseInt(trim(split(value)[i]))])

\* parsed.map(Number).filter(n => !isNaN(n))
arrayNumbers(items) == dropNaN([i \in DOMAIN items |-> Number(items[i])])

\* mutant: the JSON tier is left out, every text is split on commas
parseNumberArray_noJSON(value) ==
  IF value = <<>> THEN List(<<>>) ELSE List(splitInts(value))

parseNumberArray(value) ==
  IF value = <<>> THEN List(<<>>)
  ELSE IF JSONparse(value).array THEN List(arrayNumbers(JSONparse(value).items))
  ELSE List(splitInts(value))

\* /^\d+-\d+$/.test(value): digits, one hyphen, digits, nothing else
matchesRange(value) ==
  LET first == leadingDigits(value)
      rest == SubSeq(value, Len(first) + 1, Len(value))
  IN /\ first # <<>>
     /\ rest # <<>> /\ Head(rest) = "-"
     /\ allDigits(Tail(rest))

\* mutant: the range test comes after the JSON and comma tiers
parsePhases_rangeLast(value) ==
  IF value = <<>> THEN List(<<>>)
  ELSE IF JSONparse(value).array THEN List(arrayNumbers(JSONparse(value).items))
  ELSE IF Len(splitInts(value)) > 0 THEN List(splitInts(value))
  ELSE Str(value)

parsePhases(value) ==
  IF value = <<>> THEN List(<<>>)
  ELSE IF matchesRange(value) THEN Str(value)
  ELSE IF JSONparse(value).array THEN List(arrayNumbers(JSONparse(value).items))
  ELSE IF Len(splitInts(value)) > 0 THEN List(splitInts(value))
  ELSE Str(value)

\* String(x) of a parsed JSON element
String(x) == IF x.kind = "num" THEN numberToString(x.num) ELSE x.str

\* a statement that raised stands where its value would
Raised == [kind |-> "raised", items |-> <<>>, str |-> <<>>, num |-> 0]

\* value.split(',').map(item => item.trim()).filter(item => item.length > 0)
splitItems(value) ==
  SelectSeq([i \in DOMAIN split(value) |-> trim(split(value)[i])], LAMBDA item : Len(item) > 0)

\* mutant: JSON.parse outside the try, a text that is no JSON document raises
parseArray_noCatch(value) ==
  IF value = <<>> THEN List(<<>>)
  ELSE IF ~JSONparse(value).ok THEN Raised
  ELSE IF JSONparse(value).array
       THEN List([i \in DOMAIN JSONparse(value).items |-> String(JSONparse(value).items[i])])
  ELSE List(splitItems(value))

parseArray(value) ==
  IF value = <<>> THEN List(<<>>)
  ELSE IF JSONparse(value).array
       THEN List([i \in DOMAIN JSONparse(value).items |-> String(JSONparse(value).items[i])])
  ELSE List(splitItems(value))

\* A row is the sequence of its <<key, text>> entries.  row[key] !== undefined
hasKey(row, key) == \E i \in DOMAIN row : row[i][1] = key
\* row[key]
valueAt(row, key) == row[CHOOSE i \in DOMAIN row : row[i][1] = key][2]

\* the for loop of getValue: the cell under the first of the keys the row has
RECURSIVE firstValue(_, _)
firstValue(row, keys) ==
  IF keys = <<>> THEN Absent
  ELSE IF hasKey(row, Head(keys)) THEN [present |-> TRUE, text |-> valueAt(row, Head(keys))]
  ELSE firstValue(row, Tail(keys))

\* transformDataWithMapping: transformedRow[expected] = row[provided] || ''
transformDataWithMapping(row, m) ==
  [i \in DOMAIN m |-> <<m[i][1], IF hasKey(row, m[i][2]) THEN valueAt(row, m[i][2]) ELSE <<>>>>]

transformClient(row) ==
  [ClientID |-> getValue(firstValue(row, <<<<"C", "l", "i", "e", "n", "t", "I", "D">>, <<"c", "l", "i", "e", "n", "t", "_", "i", "d">>, <<"i", "d">>>>)),
   ClientName |-> getValue(firstValue(row, <<<<"C", "l", "i", "e", "n", "t", "N", "a", "m", "e">>, <<"c", "l", "i", "e", "n", "t", "_", "n", "a", "m", "e">>, <<"n", "a", "m", "e">>>>)),
   PriorityLevel |-> coerceScalar(firstValue(row, <<<<"P", "r", "i", "o", "r", "i", "t", "y", "L", "e", "v", "e", "l">>, <<"p", "r", "i", "o", "r", "i", "t", "y", "_", "l", "e", "v", "e", "l">>, <<"p", "r", "i", "o", "r", "i", "t", "y">>>>)),
   RequestedTaskIDs |->
     parseArray(getValue(firstValue(row, <<<<"R", "e", "q", "u", "e", "s", "t", "e", "d", "T", "a", "s", "k", "I", "D", "s">>, <<"r", "e", "q", "u", "e", "s", "t", "e", "d", "_", "t", "a", "s", "k", "_", "i", "d", "s">>, <<"t", "a", "s", "k", "s">>>>))),
   GroupTag |-> getValue(firstValue(row, <<<<"G", "r", "o", "u", "p", "T", "a", "g">>, <<"g", "r", "o", "u", "p", "_", "t", "a", "g">>, <<"g", "r", "o", "u", "p">>>>)),
   AttributesJSON |->
     Str(getValue(firstValue(row, <<<<"A", "t", "t", "r", "i", "b", "u", "t", "e", "s", "J", "S", "O", "N">>, <<"a", "t", "t", "r", "i", "b", "u", "t", "e", "s", "_", "j", "s", "o", "n">>, <<"a", "t", "t", "r", "i", "b", "u", "t", "e", "s">>>>)))]

transformWorker(row) ==
  [WorkerID |-> getValue(firstValue(row, <<<<"W", "o", "r", "k", "e", "r", "I", "D">>, <<"w", "o", "r", "k", "e", "r", "_", "i", "d">>, <<"i", "d">>>>)),
   WorkerName |-> getValue(firstValue(row, <<<<"W", "o", "r", "k", "e", "r", "N", "a", "m", "e">>, <<"w", "o", "r", "k", "e", "r", "_", "n", "a", "m", "e">>, <<"n", "a", "m", "e">>>>)),
   Skills |-> parseArray(getValue(firstValue(row, <<<<"S", "k", "i", "l", "l", "s">>, <<"s", "k", "i", "l", "l", "s">>>>))),
   AvailableSlots |->
     parseNumberArray(getValue(firstValue(row, <<<<"A", "v", "a", "i", "l", "a", "b", "l", "e", "S", "l", "o", "t", "s">>, <<"a", "v", "a", "i", "l", "a", "b", "l", "e", "_", "s", "l", "o", "t", "s">>, <<"s", "l", "o", "t", "s">>>>))),
   MaxLoadPerPhase |->
     coerceScalar(firstValue(row, <<<<"M", "a", "x", "L", "o", "a", "d", "P", "e", "r", "P", "h", "a", "s", "e">>, <<"m", "a", "x", "_", "l", "o", "a", "d", "_", "p", "e", "r", "_", "p", "h", "a", "s", "e">>, <<"m", "a", "x", "_", "l", "o", "a", "d">>>>)),
   WorkerGroup |-> getValue(firstValue(row, <<<<"W", "o", "r", "k", "e", "r", "G", "r", "o", "u", "p">>, <<"w", "o", "r", "k", "e", "r", "_", "g", "r", "o", "u", "p">>, <<"g", "r", "o", "u", "p">>>>)),
   QualificationLevel |->
     coerceScalar(firstValue(row, <<<<"Q", "u", "a", "l", "i", "f", "i", "c", "a", "t", "i", "o", "n", "L", "e", "v", "e", "l">>, <<"q", "u", "a", "l", "i", "f", "i", "c", "a", "t", "i", "o", "n", "_", "l", "e", "v", "e", "l">>, <<"l", "e", "v", "e", "l">>>>))]

transformTask(row) ==
  [TaskID |-> getValue(firstValue(row, <<<<"T", "a", "s", "k", "I", "D">>, <<"t", "a", "s", "k", "_", "i", "d">>, <<"i", "d">>>>)),
   TaskName |-> getValue(firstValue(row, <<<<"T", "a", "s", "k", "N", "a", "m", "e">>, <<"t", "a", "s", "k", "_", "n", "a", "m", "e">>, <<"n", "a", "m", "e">>>>)),
   Category |-> getValue(firstValue(row, <<<<"C", "a", "t", "e", "g", "o", "r", "y">>, <<"c", "a", "t", "e", "g", "o", "r", "y">>>>)),
   Duration |-> coerceScalar(firstValue(row, <<<<"D", "u", "r", "a", "t", "i", "o", "n">>, <<"d", "u", "r", "a", "t", "i", "o", "n">>>>)),
   RequiredSkills |->
     parseArray(getValue(firstValue(row, <<<<"R", "e", "q", "u", "i", "r", "e", "d", "S", "k", "i", "l", "l", "s">>, <<"r", "e", "q", "u", "i", "r", "e", "d", "_", "s", "k", "i", "l", "l", "s">>, <<"s", "k", "i", "l", "l", "s">>>>))),
   PreferredPhases |->
     parsePhases(getValue(firstValue(row, <<<<"P", "r", "e", "f", "e", "r", "r", "e", "d", "P", "h", "a", "s", "e", "s">>, <<"p", "r", "e", "f", "e", "r", "r", "e", "d", "_", "p", "h", "a", "s", "e", "s">>, <<"p", "h", "a", "s", "e", "s">>>>))),
   MaxConcurrent |->
     coerceScalar(firstValue(row, <<<<"M", "a", "x", "C", "o", "n", "c", "u", "r", "r", "e", "n", "t">>, <<"m", "a", "x", "_", "c", "o", "n", "c", "u", "r", "r", "e", "n", "t">>, <<"c", "o", "n", "c", "u", "r", "r", "e", "n", "t">>>>))]

\* transformEntityData / transformData: the switch on the entity type
transformEntityData(row, type) ==
  CASE type = "client" -> transformClient(row)
    [] type = "worker" -> transformWorker(row)
    [] type = "task" -> transformTask(row)
    [] OTHER -> row

(***************************************************************************)
(* parsePhaseRange (src/lib/validation.ts)                                 *)
(***************************************************************************)
\* s.split(sep) for a one-character separator
RECURSIVE splitOn(_, _)
splitOn(s, sep) ==
  IF \A i \in DOMAIN s : s[i] # sep
  THEN <<s>>
  ELSE LET k == CHOOSE i \in DOMAIN s : s[i] = sep /\ \A j \in 1..(i - 1) : s[j] # sep
       IN <<SubSeq(s, 1, k - 1)>> \o splitOn(SubSeq(s, k + 1, Len(s)), sep)

\* Array.from({ length }, (_, i) => start + i): a negative length counts as 0
arrayFrom(length, start) == [i \in 1..(IF length > 0 THEN length ELSE 0) |-> start + (i - 1)]

\* what JSON.parse(text) returns for a text that parses
parsedValue(text) ==
  LET parsed == JSONparse(text)
  IN IF parsed.array
     THEN List([i \in DOMAIN parsed.items |->
                  IF parsed.items[i].kind = "num" THEN parsed.items[i].num
                  ELSE parsed.items[i].str])
     ELSE IF isJSONInt(jsonTrim(text)) THEN jsonElement(jsonTrim(text))
     ELSE IF isJSONString(jsonTrim(text)) THEN jsonElement(jsonTrim(text))
     ELSE Obj

\* mutant: the end of the range is left out, length end - start
parsePhaseRange_exclusive(phases) ==
  IF isArray(phases) THEN phases
  ELSE IF phases.kind = "str"
  THEN IF \E i \in DOMAIN phases.str : phases.str[i] = "-"
       THEN LET parts == splitOn(phases.str, "-")
                start == Number(Str(parts[1]))
                end == Number(Str(parts[2]))
            IN IF start.kind = "nan" \/ end.kind = "nan" THEN List(<<>>)
               ELSE List(arrayFrom(end.num - start.num, start.num))
       ELSE IF JSONparse(phases.str).ok THEN parsedValue(phases.str) ELSE List(<<>>)
  ELSE List(<<>>)

\* parsePhaseRange: a list is returned as it is; a string with a hyphen is split
\* on '-', its first two parts are converted by Number and the range is built by
\* Array.from, whose length is 0 when it is NaN; any other string is handed to
\* JSON.parse, [] when that raises; anything else gives []
parsePhaseRange(phases) ==
  IF isArray(phases) THEN phases
  ELSE IF phases.kind = "str"
  THEN IF \E i \in DOMAIN phases.str : phases.str[i] = "-"
       THEN LET parts == splitOn(phases.str, "-")
                start == Number(Str(parts[1]))
                end == Number(Str(parts[2]))
            IN IF start.kind = "nan" \/ end.kind = "nan" THEN List(<<>>)
               ELSE List(arrayFrom(end.num - start.num + 1, start.num))
       ELSE IF JSONparse(phases.str).ok THEN parsedValue(phases.str) ELSE List(<<>>)
  ELSE List(<<>>)

(***************************************************************************)
(* Input collections.  Rows carry the fields the validators read           *)
(* (GroupTag, WorkerGroup, QualificationLevel and Category are read by     *)
(* neither validator).  Numeric fields hold integers.                      *)
(***************************************************************************)
Client(id, name, prio, req, attr) ==
  [ClientID |-> id, ClientName |-> name, PriorityLevel |-> prio,
   RequestedTaskIDs |-> req, AttributesJSON |-> attr]
Worker(id, name, skills, slots, load) ==
  [WorkerID |-> id, WorkerName |-> name, Skills |-> skills,
   AvailableSlots |-> slots, MaxLoadPerPhase |-> load]
Task(id, name, dur, req, maxc, phases) ==
  [TaskID |-> id, TaskName |-> name, Duration |-> dur, RequiredSkills |-> req,
   MaxConcurrent |-> maxc, PreferredPhases |-> phases]

SeqsUpTo(S, n) == UNION {[1..k -> S] : k \in 0..n}
SeqsFrom1(S, n) == UNION {[1..k -> S] : k \in 1..n}

IDs == {<<>>, <<"A">>, <<"B">>}
BaseClient(id) == Client(id, <<"n">>, 3, List(<<>>), Obj)
BaseWorker(id) == Worker(id, <<"n">>, List(<<<<"s", "1">>>>), List(<<1>>), 1)
BaseTask(id) == Task(id, <<"n">>, 1, List(<<>>), 1, List(<<>>))

Given(cs, ws, ts) == clients = cs /\ workers = ws /\ tasks = ts

\* identifier family: every sequence of identifiers, one collection at a time
IdSeqs == SeqsUpTo(IDs, MaxDupRows)
FamIds ==
  \E s \in IdSeqs :
    \/ Given([i \in DOMAIN s |-> BaseClient(s[i])], <<>>, <<>>)
    \/ Given(<<>>, [i \in DOMAIN s |-> BaseWorker(s[i])], <<>>)
    \/ Given(<<>>, <<>>, [i \in DOMAIN s |-> BaseTask(s[i])])

\* row family: one row ranging over every combination of field values, at every
\* position of a collection whose other rows are the base row <<"A">>
ClientVariants ==
  {Client(id, name, prio, req, attr) :
     id \in IDs, name \in {<<>>, <<"n">>}, prio \in {0, 1, 5, 6},
     req \in {List(<<>>), Null, Str(<<"T", "1">>)},
     attr \in {Obj, Str(<<"{", "}">>), Str(<<"{", "\"", "a", "\"", ":", "1", "}">>),
               Str(<<"{", "b", "a", "d">>), Str(<<"5">>), Str(<<>>)}}
WorkerVariants ==
  {Worker(id, name, skills, slots, load) :
     id \in IDs, name \in {<<>>, <<"n">>},
     skills \in {List(<<<<"s", "1">>>>), Null, Str(<<"s", "1">>)},
     slots \in {List(<<1>>), List(<<0>>), List(<<1, 2>>), Null, Str(<<"1", ",", "2">>), Num(3)},
     load \in {0, 1, 2, 4}}
TaskVariants ==
  {Task(id, name, dur, req, maxc, phases) :
     id \in IDs, name \in {<<>>, <<"n">>}, dur \in {0, 1},
     req \in {List(<<<<"s", "1">>>>), Null, Str(<<"s", "1">>)}, maxc \in {0, 1},
     phases \in {List(<<1>>), Str(<<"1", "-", "2">>), Str(<<"1", "0", "-", "1", "2">>),
                 Str(<<"x">>), Str(<<"2", "-">>), Str(<<"1", "-", "2", "-", "3">>),
                 Null, Num(3)}}
Placed(v, base, k, pos) == [i \in 1..k |-> IF i = pos THEN v ELSE base]
FamRows ==
  \E k \in 1..MaxRows : \E pos \in 1..k :
    \/ \E v \in ClientVariants : Given(Placed(v, BaseClient(<<"A">>), k, pos), <<>>, <<>>)
    \/ \E v \in WorkerVariants : Given(<<>>, Placed(v, BaseWorker(<<"A">>), k, pos), <<>>)
    \/ \E v \in TaskVariants : Given(<<>>, <<>>, Placed(v, BaseTask(<<"A">>), k, pos))

\* cross-reference families
TaskNames == {<<"T", "1">>, <<"T", "2">>}
RequestedLists ==
  {<<>>, <<<<"T", "1">>>>, <<<<"T", "2">>>>, <<<<"X">>>>, <<<<"T", "2">>, <<"X">>>>, <<<<"X">>, <<"T", "1">>, <<"X">>>>}
FamTaskRefs ==
  \E rs \in SeqsFrom1(RequestedLists, MaxRows) : \E ts \in SeqsUpTo(TaskNames, MaxRows) :
    Given([i \in DOMAIN rs |-> Client(<<"A">>, <<"n">>, 3, List(rs[i]), Obj)], <<>>,
          [i \in DOMAIN ts |-> BaseTask(ts[i])])
RequiredLists == {<<>>, <<<<"s", "1">>>>, <<<<"s", "2">>>>, <<<<"s", "1">>, <<"s", "2">>>>, <<<<"s", "2">>, <<"s", "2">>>>}
SkillValues == {List(<<<<"s", "1">>>>), List(<<<<"s", "2">>, <<"s", "1">>>>), Str(<<"s", "1">>), Null}
FamSkillRefs ==
  \E ss \in SeqsUpTo(SkillValues, MaxRows) : \E rs \in SeqsFrom1(RequiredLists, MaxRows) :
    Given(<<>>, [i \in DOMAIN ss |-> Worker(<<"A">>, <<"n">>, ss[i], List(<<1>>), 1)],
          [i \in DOMAIN rs |-> Task(<<"A">>, <<"n">>, 1, List(rs[i]), 1, List(<<>>))])

\* capacity family
CapWorkers ==
  {Worker(<<"A">>, <<"n">>, List(<<<<"s", "1">>>>), List(<<1>>), 1),
   Worker(<<"A">>, <<"n">>, List(<<<<"s", "1">>>>), List(<<1, 1>>), 2),
   Worker(<<"A">>, <<"n">>, List(<<<<"s", "1">>>>), List(<<2, 1>>), 2),
   Worker(<<"A">>, <<"n">>, List(<<<<"s", "1">>>>), List(<<2>>), 3),
   Worker(<<"A">>, <<"n">>, List(<<<<"s", "1">>>>), Str(<<"1", ",", "2">>), 3)}
CapTasks ==
  {Task(<<"A">>, <<"n">>, 1, List(<<>>), 1, List(<<1>>)),
   Task(<<"A">>, <<"n">>, 2, List(<<>>), 1, List(<<1, 1>>)),
   Task(<<"A">>, <<"n">>, 3, List(<<>>), 1, List(<<2, 1>>)),
   Task(<<"A">>, <<"n">>, 2, List(<<>>), 1, List(<<2>>)),
   Task(<<"A">>, <<"n">>, 5, List(<<>>), 1, Str(<<"1", "-", "2">>))}
FamCapacity ==
  \E ws \in SeqsUpTo(CapWorkers, MaxRows) : \E ts \in SeqsFrom1(CapTasks, MaxRows) :
    Given(<<>>, ws, ts)

\* the generator either never repeats a value or repeats one at its second draw;
\* both are tried with the collections of the identifier family
RepeatSets == {{}, {2}}

Inputs == FamIds \/ FamRows \/ FamTaskRefs \/ FamSkillRefs \/ FamCapacity

(***************************************************************************)
(* State machine                                                           *)
(***************************************************************************)
\* a validator freshly constructed, before any call
NewValidator ==
  /\ errors = <<>>
  /\ outcome = "idle"
  /\ result = <<>>
  /\ calls = 0
  /\ nextId = 0
  /\ workerOutcome = "idle"
  /\ validationErrors = <<>>
  /\ arrays = << <<>> >>
  /\ returned = <<>>

\* no file has been uploaded
NoHeaders ==
  /\ headers = <<>>
  /\ entityType = "none"
  /\ mapping = <<>>
  /\ serviceMapping = <<>>
NoCell ==
  /\ cell = Absent
  /\ coercedScalar = Null
  /\ coercedSlots = Null
  /\ coercedPhases = Null
NoRecord == [kind |-> "none"]
NoIngest == cells = <<>> /\ record = NoRecord
NoRange == phasesArg = Null /\ expanded = NoRecord
NoChannel ==
  /\ workerRef = "null"
  /\ requests = <<>>
  /\ handled = 0
  /\ responses = <<>>
  /\ delivered = 0
  /\ listeners = <<>>
  /\ promises = <<>>
NoPage ==
  /\ pc = [at |-> "idle", standardErrors |-> <<>>, aiErrors |-> <<>>]
  /\ isValidating = FALSE
  /\ isAIProcessing = FALSE
  /\ aiIndex = 0
  /\ config = [worker |-> FALSE, openai |-> FALSE]
  /\ runs = 0
\* the keys the cache is used with; new Map(): no key has an entry
CacheKeys == {<<"k">>, <<"j">>}
EmptyMap == [k \in CacheKeys |-> NoRecord]
NoCache ==
  /\ cache = EmptyMap
  /\ now = 0
  /\ lastOp = [op |-> "none"]
  /\ written = EmptyMap
Elsewhere == NoIngest /\ NoRange /\ NoChannel /\ NoPage /\ NoCache
NoUpload == NoHeaders /\ NoCell /\ steps = {} /\ Elsewhere

Init ==
  /\ \/ FamIds /\ repeats \in RepeatSets
     \/ (FamRows \/ FamTaskRefs \/ FamSkillRefs \/ FamCapacity) /\ repeats = {}
  /\ NewValidator
  /\ NoUpload

\* one call of validator.validateAll() on the validator built over the collections
ValidateAll ==
  /\ calls < MaxCalls
  /\ \E this \in {validateAll} : \E fresh \in {resetErrors} :
        /\ errors' = this.errors
        /\ outcome' = IF this.threw THEN "threw" ELSE "returned"
        /\ result' = IF this.threw THEN result ELSE this.errors
        /\ nextId' = nextId + Len(this.errors)
        /\ arrays' = [fresh EXCEPT ![Len(fresh)] = this.errors]
        /\ returned' = IF this.threw THEN returned
                       ELSE Append(returned, [ref |-> Len(fresh), issues |-> this.errors])
  /\ calls' = calls + 1
  /\ UNCHANGED <<clients, workers, tasks, workerOutcome, validationErrors, repeats,
                 headerVars, cellVars, steps, laterVars>>

\* the page posts VALIDATE_DATA; the worker replies VALIDATION_COMPLETE with
\* success true and the page stores result.data as validationErrors
ValidateInWorker ==
  /\ workerOutcome = "idle"
  /\ validationErrors' = validateDataInWorker
  /\ workerOutcome' = "returned"
  /\ UNCHANGED <<clients, workers, tasks, errors, outcome, result, calls, nextId,
                 arrays, returned, repeats, headerVars, cellVars, steps, laterVars>>

Next == ValidateAll

Spec == Init /\ [][Next]_vars

NextWorker == ValidateAll \/ ValidateInWorker

SpecWorker == Init /\ [][NextWorker]_vars

(***************************************************************************)
(* Schema inference as a state machine: a header row is uploaded, the      *)
(* entity type is detected, then the headers are mapped by either fallback.*)
(***************************************************************************)
MaxHeaders == 2     \* headers in the header row

HeaderTexts ==
  {<<>>, <<"N", "a", "m", "e">>, <<"C", "l", "i", "e", "n", "t", "I", "D">>, <<"c", "l", "i", "e", "n", "t", "_", "i", "d">>, <<"P", "r", "i", "o", "r", "i", "t", "y", "_", "L", "e", "v", "e", "l">>, <<"S", "k", "i", "l", "l", "s">>, <<"A", "v", "a", "i", "l", "a", "b", "l", "e", " ", "S", "l", "o", "t", "s">>,
   <<"W", "O", "R", "K", "E", "R", "I", "D">>, <<"D", "u", "r", "a", "t", "i", "o", "n">>, <<"m", "a", "x", "_", "c", "o", "n", "c", "u", "r", "r", "e", "n", "t">>, <<"T", "a", "s", "k", "I", "D">>, <<"c", "l", "i", "e", "n", "t", "i", "d">>}
HeaderRows == SeqsUpTo(HeaderTexts, MaxHeaders)

InitHeaders ==
  /\ Given(<<>>, <<>>, <<>>)
  /\ NewValidator
  /\ repeats = {}
  /\ headers \in HeaderRows
  /\ entityType = "none"
  /\ mapping = <<>>
  /\ serviceMapping = <<>>
  /\ NoCell
  /\ steps = {}
  /\ Elsewhere

\* parseFile, line 23: const entityType = this.detectEntityType(rawData.headers)
DetectEntityType ==
  /\ "detect" \notin steps
  /\ entityType' = detectEntityType(headers)
  /\ steps' = steps \cup {"detect"}
  /\ UNCHANGED <<validatorVars, headers, mapping, serviceMapping, cellVars, laterVars>>

\* mapHeadersWithAI, line 57: the AI mapping failed, the parser maps by itself
CreateFallbackMapping ==
  /\ "detect" \in steps /\ "map" \notin steps
  /\ mapping' = createFallbackMapping(headers, entityType)
  /\ steps' = steps \cup {"map"}
  /\ UNCHANGED <<validatorVars, headers, entityType, serviceMapping, cellVars, laterVars>>

\* OpenAIService.parseHeaders with the service unavailable (or its request
\* failing): the response is getFallbackHeaderMapping's
GetFallbackHeaderMapping ==
  /\ "detect" \in steps /\ "serviceMap" \notin steps
  /\ serviceMapping' = getFallbackHeaderMapping(headers, entityType).data
  /\ steps' = steps \cup {"serviceMap"}
  /\ UNCHANGED <<validatorVars, headers, entityType, mapping, cellVars, laterVars>>

NextHeaders == DetectEntityType \/ CreateFallbackMapping \/ GetFallbackHeaderMapping

SpecHeaders == InitHeaders /\ [][NextHeaders]_vars

(***************************************************************************)
(* Field coercion as a state machine: a raw cell is coerced as an integer  *)
(* scalar, as an integer list and as a phase specification.                *)
(***************************************************************************)
MaxListLen == 2     \* entries of an integer list whose text is a cell

\* L.join(',') and JSON.stringify(L) of a list of integers
RECURSIVE CommaText(_)
CommaText(L) ==
  IF L = <<>> THEN <<>>
  ELSE IF Len(L) = 1 THEN numberToString(L[1])
  ELSE numberToString(L[1]) \o <<",">> \o CommaText(Tail(L))
JSONText(L) == <<"[">> \o CommaText(L) \o <<"]">>

ListEntries == {-1, 0, 7, 10}
IntLists == SeqsUpTo(ListEntries, MaxListLen)
FreeTexts ==
  {<<>>, <<"0">>, <<"3">>, <<"-", "2">>, <<"+", "4">>, <<"1", "2">>, <<"a", "b", "c">>, <<"7", "x">>, <<" ", "5", " ">>, <<"2", "-", "5">>, <<"1", "0", "-", "1", "2">>, <<"2", "-">>, <<"-", "5">>, <<"1", "-", "2", "-", "3">>,
   <<" ", "2", "-", "5", " ">>, <<"[", "]">>, <<"[", " ", "]">>, <<"[", "\"", "a", "\"", "]">>, <<"[", "\"", "\"", "]">>, <<"[", "\"", "4", "\"", ",", " ", "5", "]">>, <<"[", "1", ",", " ", "2", "]">>, <<"[", "1", ",", "2">>, <<"1", ",", " ", "2">>, <<"1", ",", "x", ",", "3">>,
   <<"1", ",", ",", "2">>, <<",">>, <<"{", "}">>}
CellTexts == FreeTexts \cup {CommaText(L) : L \in IntLists} \cup {JSONText(L) : L \in IntLists}
Cells == {Absent} \cup {[present |-> TRUE, text |-> t] : t \in CellTexts}

InitCoercion ==
  /\ Given(<<>>, <<>>, <<>>)
  /\ NewValidator
  /\ repeats = {}
  /\ NoHeaders
  /\ cell \in Cells
  /\ coercedScalar = Null
  /\ coercedSlots = Null
  /\ coercedPhases = Null
  /\ steps = {}
  /\ Elsewhere

\* transformClient/Worker/Task: parseInt(this.getValue(row, [..])) || 1
CoerceScalar ==
  /\ "scalar" \notin steps
  /\ coercedScalar' = coerceScalar(cell)
  /\ steps' = steps \cup {"scalar"}
  /\ UNCHANGED <<validatorVars, headerVars, cell, coercedSlots, coercedPhases, laterVars>>

\* transformWorker: this.parseNumberArray(this.getValue(row, [..]))
CoerceNumberArray ==
  /\ "numbers" \notin steps
  /\ coercedSlots' = parseNumberArray(getValue(cell))
  /\ steps' = steps \cup {"numbers"}
  /\ UNCHANGED <<validatorVars, headerVars, cell, coercedScalar, coercedPhases, laterVars>>

\* transformTask: this.parsePhases(this.getValue(row, [..]))
CoercePhases ==
  /\ "phases" \notin steps
  /\ coercedPhases' = parsePhases(getValue(cell))
  /\ steps' = steps \cup {"phases"}
  /\ UNCHANGED <<validatorVars, headerVars, cell, coercedScalar, coercedSlots, laterVars>>

NextCoercion == CoerceScalar \/ CoerceNumberArray \/ CoercePhases

SpecCoercion == InitCoercion /\ [][NextCoercion]_vars

(***************************************************************************)
(* Ingestion as a state machine: a file of one header row and one data row *)
(* is parsed, the page stores the records under the detected entity type,  *)
(* and the validator built over the collections runs.                      *)
(***************************************************************************)
\* the cell texts of the uploaded rows
IngestTexts == CellTexts \cup {<<"{", "\"", "a", "\"", ":", "1", "}">>, <<"{", "b", "a", "d">>, <<" ", "{", "}", " ">>, <<"x", " ", "y">>, <<"T", "1", ",", " ", "T", "2">>}

\* a well-formed data row for the expected headers of an entity type
BaseTexts(type) ==
  CASE type = "client" -> <<<<"A">>, <<"n">>, <<"3">>, <<"T", "1">>, <<"g">>, <<"{", "}">>>>
    [] type = "worker" -> <<<<"A">>, <<"n">>, <<"s", "1">>, <<"1", ",", "2">>, <<"1">>, <<"g">>, <<"2">>>>
    [] type = "task" -> <<<<"A">>, <<"n">>, <<"c">>, <<"2">>, <<"s", "1">>, <<"[", "1", "]">>, <<"1">>>>

\* headers under other names, some of them keys the transforms read
AliasHeaders(type) ==
  CASE type = "client" -> <<<<"c", "l", "i", "e", "n", "t", "_", "i", "d">>, <<"n", "a", "m", "e">>, <<"P", "r", "i", "o", "r", "i", "t", "y", " ", "L", "e", "v", "e", "l">>, <<"t", "a", "s", "k", "s">>, <<"g", "r", "o", "u", "p">>, <<"a", "t", "t", "r", "i", "b", "u", "t", "e", "s">>>>
    [] type = "worker" -> <<<<"w", "o", "r", "k", "e", "r", "_", "i", "d">>, <<"n", "a", "m", "e">>, <<"s", "k", "i", "l", "l", "s">>, <<"s", "l", "o", "t", "s">>, <<"m", "a", "x", "_", "l", "o", "a", "d">>, <<"g", "r", "o", "u", "p">>, <<"l", "e", "v", "e", "l">>>>
    [] type = "task" -> <<<<"t", "a", "s", "k", "_", "i", "d">>, <<"n", "a", "m", "e">>, <<"c", "a", "t", "e", "g", "o", "r", "y">>, <<"d", "u", "r", "a", "t", "i", "o", "n">>, <<"s", "k", "i", "l", "l", "s">>, <<"p", "h", "a", "s", "e", "s">>, <<"c", "o", "n", "c", "u", "r", "r", "e", "n", "t">>>>

Without(s, i) == SubSeq(s, 1, i - 1) \o SubSeq(s, i + 1, Len(s))

\* the uploaded file: the expected headers or the other names, one cell ranging
\* over the texts, or one column missing
File(hs, ts) == headers = hs /\ cells = ts
Files ==
  \E type \in {"client", "worker", "task"} :
    \E hs \in {getExpectedHeaders(type), AliasHeaders(type)} : \E i \in DOMAIN hs :
      \/ \E t \in IngestTexts : File(hs, [BaseTexts(type) EXCEPT ![i] = t])
      \/ File(Without(hs, i), Without(BaseTexts(type), i))

InitIngest ==
  /\ \/ FamRows /\ headers = <<>> /\ cells = <<>>
     \/ Given(<<>>, <<>>, <<>>) /\ Files
  /\ NewValidator
  /\ repeats = {}
  /\ entityType = "none"
  /\ mapping = <<>>
  /\ serviceMapping = <<>>
  /\ NoCell
  /\ steps = {}
  /\ record = NoRecord
  /\ NoRange /\ NoChannel /\ NoPage /\ NoCache

\* the data row as Papa.parse hands it over: the object keyed by the headers
rawRow == [i \in DOMAIN headers |-> <<headers[i], cells[i]>>]

\* mapHeadersWithAI: the mapping of the service's answer without its null entries,
\* or createFallbackMapping's when the service fails.  The service answers with
\* the fallback mapping or with one expected header left unmapped.
mapHeadersWithAI(hs, type) ==
  LET fallback == createFallbackMapping(hs, type)
  IN {fallback} \cup {Without(fallback, i) : i \in DOMAIN fallback}

\* the records as the DataValidator reads them: the fields it reads, a number
\* field holding the number
stored(r, type) ==
  CASE type = "client" ->
         Client(r.ClientID, r.ClientName, r.PriorityLevel.num, r.RequestedTaskIDs,
                r.AttributesJSON)
    [] type = "worker" ->
         Worker(r.WorkerID, r.WorkerName, r.Skills, r.AvailableSlots, r.MaxLoadPerPhase.num)
    [] type = "task" ->
         Task(r.TaskID, r.TaskName, r.Duration.num, r.RequiredSkills, r.MaxConcurrent.num,
              r.PreferredPhases)

\* EnhancedFileParser.parseFile on the file, then handleFileUpload's setDataState:
\* the records replace the collection of the detected entity type
EnhancedParseFile ==
  /\ headers # <<>> /\ steps = {} /\ calls = 0
  /\ \E type \in {detectEntityType(headers)} : \E m \in mapHeadersWithAI(headers, type) :
       \E r \in {transformEntityData(transformDataWithMapping(rawRow, m), type)} :
         /\ entityType' = type
         /\ mapping' = m
         /\ record' = r
         /\ clients' = IF type = "client" THEN <<stored(r, type)>> ELSE clients
         /\ workers' = IF type = "worker" THEN <<stored(r, type)>> ELSE workers
         /\ tasks' = IF type = "task" THEN <<stored(r, type)>> ELSE tasks
  /\ steps' = {"enhanced"}
  /\ UNCHANGED <<errors, outcome, result, calls, nextId, workerOutcome, validationErrors,
                 arrays, returned, repeats, headers, serviceMapping, cellVars, cells,
                 newerVars>>

\* FileParser.parseFile on the file: the data row is transformed under its own
\* headers
BasicParseFile ==
  /\ headers # <<>> /\ steps = {} /\ calls = 0
  /\ entityType' = detectEntityType(headers)
  /\ record' = transformEntityData(rawRow, entityType')
  /\ steps' = {"basic"}
  /\ UNCHANGED <<validatorVars, headers, mapping, serviceMapping, cellVars, cells, newerVars>>

NextIngest == EnhancedParseFile \/ BasicParseFile \/ ValidateAll

SpecIngest == InitIngest /\ [][NextIngest]_vars

(***************************************************************************)
(* parsePhaseRange as a state machine: it is called once on an argument.   *)
(***************************************************************************)
MaxPhase == 5       \* the single-digit phase numbers of the range strings

PhaseNumbers == 0..MaxPhase \cup {10, 12}
RangeText(first, last) == numberToString(first) \o <<"-">> \o numberToString(last)
PhaseArgs ==
  {Str(RangeText(first, last)) : first \in PhaseNumbers, last \in PhaseNumbers}
  \cup {List(L) : L \in SeqsUpTo({1, 2, 5}, MaxListLen)}
  \cup {Str(<<"[", "1", ",", "2", "]">>), Str(<<"a", "b", "c">>), Str(<<>>), Str(<<"-", "5">>), Str(<<"x", "-", "2">>), Str(<<"1", "-", "2", "-", "3">>), Str(<<"5">>),
        Str(<<"2", "-">>), Null, Num(3)}

InitRange ==
  /\ Given(<<>>, <<>>, <<>>)
  /\ NewValidator
  /\ repeats = {}
  /\ NoHeaders /\ NoCell /\ steps = {}
  /\ NoIngest /\ NoChannel /\ NoPage /\ NoCache
  /\ phasesArg \in PhaseArgs
  /\ expanded = NoRecord

ParsePhaseRange ==
  /\ expanded = NoRecord
  /\ expanded' = parsePhaseRange(phasesArg)
  /\ UNCHANGED <<validatorVars, headerVars, cellVars, steps, ingestVars, phasesArg,
                 channelVars, pageVars, cacheVars>>

NextRange == ParsePhaseRange

SpecRange == InitRange /\ [][NextRange]_vars

(***************************************************************************)
(* The worker channel (src/lib/hooks/use-worker.ts and                     *)
(* src/lib/workers/data-processor.worker.ts): the page hands messages to   *)
(* useWorker.postMessage, the worker handles them in order and posts       *)
(* responses, and each response is dispatched to the listeners registered  *)
(* on the worker.  A response carries type and success; the field "for"    *)
(* (the message it answers) is kept for the properties only, no code reads *)
(* it.                                                                     *)
(***************************************************************************)
MaxRequests == 3    \* messages handed to postMessage

MessageTypes == {"VALIDATE_DATA", "PARSE_FILE", "TRANSFORM_DATA", "UNKNOWN"}
\* a payload of the shape the handler expects, or none
Payloads == {"data", "undefined"}
Messages == [type : MessageTypes, payload : Payloads]

\* validateDataInWorker destructures its payload and walks the collections,
\* transformDataInWorker reads payload.data: both raise on a payload that is
\* undefined; parseFileInWorker reads nothing
handlerRaises(message) ==
  message.payload = "undefined" /\ message.type \in {"VALIDATE_DATA", "TRANSFORM_DATA"}

Response(type, success) == [type |-> type, success |-> success]

\* the try block of self.onmessage: what it posts, and whether it raised
trySwitch(message) ==
  IF handlerRaises(message) THEN [posted |-> <<>>, raised |-> TRUE]
  ELSE [posted |->
          CASE message.type = "VALIDATE_DATA" -> <<Response("VALIDATION_COMPLETE", TRUE)>>
            [] message.type = "PARSE_FILE" -> <<Response("PARSE_COMPLETE", TRUE)>>
            [] message.type = "TRANSFORM_DATA" -> <<Response("TRANSFORM_COMPLETE", TRUE)>>
            [] OTHER -> <<Response("ERROR", FALSE)>>,
        raised |-> FALSE]

\* mutant: the catch block posts nothing
onmessage_silentCatch(message) == trySwitch(message).posted

\* self.onmessage: the responses posted for one message, the catch block's included
onmessage(message) ==
  IF trySwitch(message).raised
  THEN Append(trySwitch(message).posted, Response("ERROR", FALSE))
  ELSE trySwitch(message).posted

Pending == [state |-> "pending", by |-> 0]
\* handleMessage of one listener on the event e: resolve(e.data) when e.data.success,
\* reject otherwise
handleMessage(e) ==
  [state |-> IF e.success THEN "resolved" ELSE "rejected", by |-> e.for]

InitChannel ==
  /\ Given(<<>>, <<>>, <<>>)
  /\ NewValidator
  /\ repeats = {}
  /\ NoHeaders /\ NoCell /\ steps = {}
  /\ NoIngest /\ NoRange /\ NoPage /\ NoCache
  /\ workerRef \in {"null", "unsupported"}
  /\ requests = <<>>
  /\ handled = 0
  /\ responses = <<>>
  /\ delivered = 0
  /\ listeners = <<>>
  /\ promises = <<>>

\* useWorker.postMessage(message): initializeWorker, then either the promise is
\* rejected ('Worker not available') or both listeners are registered and the
\* message is posted to the worker
PostMessage ==
  /\ Len(requests) < MaxRequests
  /\ \E message \in Messages :
       /\ requests' = Append(requests, message)
       /\ IF workerRef = "unsupported"
          THEN /\ promises' = Append(promises, [state |-> "rejected", by |-> 0])
               /\ UNCHANGED <<workerRef, listeners>>
          ELSE /\ workerRef' = IF workerRef = "null" THEN "created" ELSE workerRef
               /\ listeners' = Append(listeners, Len(requests) + 1)
               /\ promises' = Append(promises, Pending)
  /\ UNCHANGED <<validatorVars, headerVars, cellVars, steps, ingestVars, rangeVars,
                 handled, responses, delivered, pageVars, cacheVars>>

\* the worker takes the next message off its queue and runs self.onmessage on it
OnMessage ==
  /\ workerRef = "created"
  /\ handled < Len(requests)
  /\ handled' = handled + 1
  /\ responses' = responses \o
       [i \in DOMAIN onmessage(requests[handled + 1]) |->
          [type |-> onmessage(requests[handled + 1])[i].type,
           success |-> onmessage(requests[handled + 1])[i].success,
           for |-> handled + 1]]
  /\ UNCHANGED <<validatorVars, headerVars, cellVars, steps, ingestVars, rangeVars,
                 workerRef, requests, delivered, listeners, promises, pageVars, cacheVars>>

\* the next response arrives on the page: the 'message' event runs every
\* handleMessage registered on the worker; each removes its two listeners and
\* settles its promise with the event's data
MessageEvent ==
  /\ delivered < Len(responses)
  /\ delivered' = delivered + 1
  /\ promises' = [i \in DOMAIN promises |->
                    IF \E n \in DOMAIN listeners : listeners[n] = i
                    THEN handleMessage(responses[delivered + 1])
                    ELSE promises[i]]
  /\ listeners' = <<>>
  /\ UNCHANGED <<validatorVars, headerVars, cellVars, steps, ingestVars, rangeVars,
                 workerRef, requests, handled, responses, pageVars, cacheVars>>

\* the worker script fails: the 'error' event runs every handleError registered on
\* the worker; each removes its two listeners and rejects its promise.  The worker
\* handles nothing after that.
ErrorEvent ==
  /\ workerRef = "created"
  /\ workerRef' = "failed"
  /\ promises' = [i \in DOMAIN promises |->
                    IF \E n \in DOMAIN listeners : listeners[n] = i
                    THEN [state |-> "rejected", by |-> 0]
                    ELSE promises[i]]
  /\ listeners' = <<>>
  /\ UNCHANGED <<validatorVars, headerVars, cellVars, steps, ingestVars, rangeVars,
                 requests, handled, responses, delivered, pageVars, cacheVars>>

NextChannel == PostMessage \/ OnMessage \/ MessageEvent \/ ErrorEvent

SpecChannel == InitChannel /\ [][NextChannel]_vars

(***************************************************************************)
(* The page's validateData (src/app/page.tsx) as a state machine: a run    *)
(* goes from await to await; pc holds where it stands and its locals.      *)
(***************************************************************************)
MaxRuns == 2        \* runs of validateData

Standing(at, standardErrors, aiErrors) ==
  [at |-> at, standardErrors |-> standardErrors, aiErrors |-> aiErrors]
Idle == Standing("idle", <<>>, <<>>)

\* the collections on the page
PageData ==
  \/ Given(<<>>, <<>>, <<>>)
  \/ Given(<<BaseClient(<<>>)>>, <<>>, <<>>)
  \/ Given(<<BaseClient(<<"A">>)>>, <<BaseWorker(<<"A">>)>>, <<BaseTask(<<"A">>)>>)
  \/ Given(<<>>, <<Worker(<<"A">>, <<"n">>, List(<<<<"s", "1">>>>), Null, 1)>>, <<BaseTask(<<>>)>>)

InitPage ==
  /\ PageData
  /\ NewValidator
  /\ repeats = {}
  /\ NoHeaders /\ NoCell /\ steps = {}
  /\ NoIngest /\ NoRange /\ NoChannel /\ NoCache
  /\ pc = Idle
  /\ isValidating = FALSE
  /\ isAIProcessing = FALSE
  /\ aiIndex = 0
  /\ config \in [worker : BOOLEAN, openai : BOOLEAN]
  /\ runs = 0

\* mutant: the reset stands after the try statement, a return inside it skips it
finallyRuns_afterTry(path) == path # "return"

\* try { .. } finally { setIsValidating(false) }: the finally block runs on every
\* path out of the try block: a return, falling off its end, a caught exception
finallyRuns(path) == path \in {"return", "end", "catch"}

\* the run leaves the try statement on the given path; validating is the state
\* as the run has set it
Leave(path, validating) ==
  /\ pc' = Idle
  /\ isValidating' = IF finallyRuns(path) THEN FALSE ELSE validating

\* entityData.length > 0 for the k-th of ['client', 'worker', 'task']
hasEntityData(k) == Len(<<clients, workers, tasks>>[k]) > 0
\* the next entity type from k on that the AI loop awaits, 0 when none is left
nextAwaited(k) ==
  IF \E j \in k..3 : hasEntityData(j)
  THEN CHOOSE j \in k..3 : hasEntityData(j) /\ \A i \in k..(j - 1) : ~hasEntityData(i)
  ELSE 0

\* an issue the AI validation reports
aiIssue(k) ==
  [id |-> <<"ai", k>>, type |-> "warning", message |-> Msg("ai"), field |-> NoField,
   rowIndex |-> NoRow, entity |-> <<"client", "worker", "task">>[k]]

\* const allErrors = [...standardErrors, ...aiErrors]; setDataState; toast; the
\* try block ends
StoreAll(standardErrors, aiErrors, validating) ==
  /\ validationErrors' = standardErrors \o aiErrors
  /\ Leave("end", validating)

\* the AI loop from the entity type k on, up to its next await or to the end of
\* the run
AILoop(k, standardErrors, aiErrors, validating) ==
  IF nextAwaited(k) # 0
  THEN /\ pc' = Standing("awaitAI", standardErrors, aiErrors)
       /\ aiIndex' = nextAwaited(k)
       /\ isAIProcessing' = TRUE
       /\ isValidating' = validating
       /\ UNCHANGED validationErrors
  ELSE /\ aiIndex' = 0
       /\ isAIProcessing' = FALSE
       /\ StoreAll(standardErrors, aiErrors, validating)

\* from "Fallback to main thread validation" on: the validator runs; when it raises
\* the outer catch reports 'Validation failed'; else the AI validation follows when
\* the service is configured
MainThread(validating) ==
  \E this \in {validateAll} :
    IF this.threw
    THEN /\ Leave("catch", validating)
         /\ UNCHANGED <<validationErrors, isAIProcessing, aiIndex>>
    ELSE IF config.openai
    THEN AILoop(1, this.errors, <<>>, validating)
    ELSE /\ StoreAll(this.errors, <<>>, validating)
         /\ UNCHANGED <<isAIProcessing, aiIndex>>

pageFrame ==
  <<clients, workers, tasks, errors, outcome, result, calls, nextId, workerOutcome,
    arrays, returned, repeats, headerVars, cellVars, steps, ingestVars, rangeVars,
    channelVars, cacheVars, config>>

\* validateData is called: setIsValidating(true), then the worker is asked, or the
\* main thread validates at once
ValidateData ==
  /\ pc = Idle
  /\ runs < MaxRuns
  /\ runs' = runs + 1
  /\ IF config.worker
     THEN /\ pc' = Standing("awaitWorker", <<>>, <<>>)
          /\ isValidating' = TRUE
          /\ UNCHANGED <<validationErrors, isAIProcessing, aiIndex>>
     ELSE MainThread(TRUE)
  /\ UNCHANGED pageFrame

\* the promise of postWorkerMessage resolves with the worker's VALIDATION_COMPLETE:
\* the page stores result.data and returns
WorkerResolves ==
  /\ pc.at = "awaitWorker"
  /\ validationErrors' = validateDataInWorker
  /\ Leave("return", isValidating)
  /\ UNCHANGED <<isAIProcessing, aiIndex, runs>>
  /\ UNCHANGED pageFrame

\* the promise of postWorkerMessage is rejected: the page falls back to the main
\* thread
WorkerRejects ==
  /\ pc.at = "awaitWorker"
  /\ MainThread(isValidating)
  /\ UNCHANGED runs
  /\ UNCHANGED pageFrame

\* validateDataWithAI resolves for the awaited entity type, with issues or none
AIResolves ==
  /\ pc.at = "awaitAI"
  /\ \E found \in {<<>>, <<aiIssue(aiIndex)>>} :
       AILoop(aiIndex + 1, pc.standardErrors, pc.aiErrors \o found, isValidating)
  /\ UNCHANGED runs
  /\ UNCHANGED pageFrame

\* validateDataWithAI is rejected: the inner catch warns, the inner finally resets
\* isAIProcessing, and the run goes on with the issues found so far
AIRejects ==
  /\ pc.at = "awaitAI"
  /\ aiIndex' = 0
  /\ isAIProcessing' = FALSE
  /\ StoreAll(pc.standardErrors, pc.aiErrors, isValidating)
  /\ UNCHANGED runs
  /\ UNCHANGED pageFrame

NextPage == ValidateData \/ WorkerResolves \/ WorkerRejects \/ AIResolves \/ AIRejects

\* Every awaited promise settles: the worker answers each message or fails, the
\* request to the AI service completes or fails.
WorkerSettles == WorkerResolves \/ WorkerRejects
AISettles == AIResolves \/ AIRejects
SpecPage ==
  InitPage /\ [][NextPage]_vars /\ WF_vars(WorkerSettles) /\ WF_vars(AISettles)

(***************************************************************************)
(* DataCache: a map from key to {data, timestamp, ttl}; every call reads    *)
(* the clock                                                                *)
(***************************************************************************)
MaxTime == 2
DEFAULT_TTL == 5 * 60 * 1000
\* the readings of Date.now(): the first milliseconds, and those one default
\* time-to-live later
Times == (0 .. MaxTime) \cup {DEFAULT_TTL + t : t \in 0 .. MaxTime}
\* ttl: short ones, and the default of a call without the argument
TTLs == {0, 1, DEFAULT_TTL}
CacheValues == {Str(<<"x">>), Str(<<"y">>)}

\* set(key, data, ttl): the value and map after the call
set(key, data, ttl) ==
  [cache |-> [cache EXCEPT ![key] = [data |-> data, timestamp |-> now, ttl |-> ttl]]]

\* mutant: the entry is returned whatever its age
get_stale(key) ==
  LET entry == cache[key] IN
  IF entry = NoRecord THEN [result |-> Null, cache |-> cache]
  ELSE [result |-> entry.data, cache |-> cache]

\* get(key): null without an entry; an entry older than its ttl is deleted and
\* null returned; otherwise the entry's data
get(key) ==
  LET entry == cache[key] IN
  IF entry = NoRecord THEN [result |-> Null, cache |-> cache]
  ELSE IF now - entry.timestamp > entry.ttl
       THEN [result |-> Null, cache |-> [cache EXCEPT ![key] = NoRecord]]
       ELSE [result |-> entry.data, cache |-> cache]

\* has(key): the same test, answering false or true
has(key) ==
  LET entry == cache[key] IN
  IF entry = NoRecord THEN [result |-> FALSE, cache |-> cache]
  ELSE IF now - entry.timestamp > entry.ttl
       THEN [result |-> FALSE, cache |-> [cache EXCEPT ![key] = NoRecord]]
       ELSE [result |-> TRUE, cache |-> cache]

\* delete(key): Map.delete, true when there was an entry
delete(key) ==
  [result |-> cache[key] # NoRecord, cache |-> [cache EXCEPT ![key] = NoRecord]]

\* clear()
clear == [cache |-> EmptyMap]

InitCache ==
  /\ Given(<<>>, <<>>, <<>>)
  /\ NewValidator
  /\ repeats = {}
  /\ NoHeaders /\ NoCell /\ steps = {}
  /\ NoIngest /\ NoRange /\ NoChannel /\ NoPage
  /\ cache = EmptyMap
  /\ now \in 0 .. MaxTime
  /\ lastOp = [op |-> "none"]
  /\ written = EmptyMap

cacheFrame == <<validatorVars, headerVars, cellVars, steps, ingestVars, rangeVars,
                channelVars, pageVars>>

\* `written' keeps, for each key, the last set not followed by a delete of the key
\* or a clear
Set ==
  \E key \in CacheKeys, data \in CacheValues, ttl \in TTLs :
    /\ cache' = set(key, data, ttl).cache
    /\ written' = [written EXCEPT ![key] = [data |-> data, timestamp |-> now, ttl |-> ttl]]
    /\ lastOp' = [op |-> "set", key |-> key]
    /\ UNCHANGED now
    /\ UNCHANGED cacheFrame

Get ==
  \E key \in CacheKeys :
    /\ cache' = get(key).cache
    /\ lastOp' = [op |-> "get", key |-> key, at |-> now, result |-> get(key).result]
    /\ UNCHANGED <<now, written>>
    /\ UNCHANGED cacheFrame

Has ==
  \E key \in CacheKeys :
    /\ cache' = has(key).cache
    /\ lastOp' = [op |-> "has", key |-> key, at |-> now, result |-> has(key).result]
    /\ UNCHANGED <<now, written>>
    /\ UNCHANGED cacheFrame

Delete ==
  \E key \in CacheKeys :
    /\ cache' = delete(key).cache
    /\ written' = [written EXCEPT ![key] = NoRecord]
    /\ lastOp' = [op |-> "delete", key |-> key, result |-> delete(key).result]
    /\ UNCHANGED now
    /\ UNCHANGED cacheFrame

Clear ==
  /\ cache' = clear.cache
  /\ written' = EmptyMap
  /\ lastOp' = [op |-> "clear"]
  /\ UNCHANGED now
  /\ UNCHANGED cacheFrame

\* time passes between calls
Tick ==
  /\ now' \in {t \in Times : t > now}
  /\ UNCHANGED <<cache, lastOp, written>>
  /\ UNCHANGED cacheFrame

NextCache == Set \/ Get \/ Has \/ Delete \/ Clear \/ Tick
SpecCache == InitCache /\ [][NextCache]_vars

(***************************************************************************)
(* Properties                                                              *)
(***************************************************************************)
\* an issue without its identifier
Content(issue) == [type |-> issue.type, message |-> issue.message, field |-> issue.field,
                   rowIndex |-> issue.rowIndex, entity |-> issue.entity]
Contents(issues) == [i \in DOMAIN issues |-> Content(issues[i])]

Returned == outcome = "returned"

CrossRefTexts == {"Unknown task references: ", "No workers have required skills: "}
CapacityText == "Phase is oversaturated"
IsCrossRef(issue) == issue.message.text \in CrossRefTexts
IsCapacity(issue) == issue.message.text = CapacityText
IsPerEntity(issue) == ~IsCrossRef(issue) /\ ~IsCapacity(issue)

\* position of an issue in the order client, worker, task, cross-reference, capacity
Rank(issue) ==
  CASE IsCapacity(issue) -> 5
    [] IsCrossRef(issue) -> 4
    [] issue.entity = "client" -> 1
    [] issue.entity = "worker" -> 2
    [] OTHER -> 3

\* C1: in the list validateAll returns, the per-entity issues (clients, then workers,
\* then tasks) precede every cross-reference issue, and every cross-reference issue
\* precedes every capacity warning.
C1_StageOrder ==
  Returned => \A i, j \in DOMAIN result : i < j => Rank(result[i]) <= Rank(result[j])

C1_Witness ==
  /\ Returned
  /\ \E i, j, k \in DOMAIN result :
       /\ i < j /\ j < k
       /\ IsPerEntity(result[i]) /\ IsCrossRef(result[j]) /\ IsCapacity(result[k])

NonListSlotsRows == {i \in DOMAIN workers : ~isArray(workers[i].AvailableSlots)}

\* C2: validateAll never raises on a field that is not list-shaped: the call
\* completes and the returned list reports the defect, 'AvailableSlots must be an
\* array' for every worker row whose AvailableSlots is not a list.
C2_NeverRaises ==
  calls > 0 =>
    /\ outcome = "returned"
    /\ \A i \in NonListSlotsRows : \E n \in DOMAIN result :
         /\ result[n].message = Msg("AvailableSlots must be an array")
         /\ result[n].rowIndex = i - 1 /\ result[n].entity = "worker"

(***************************************************************************)
(* The checks of one row, each stated on its own.                          *)
(***************************************************************************)
\* the JSON documents among the AttributesJSON texts of the row family
ValidJSONTexts == {<<"{", "}">>, <<"{", "\"", "a", "\"", ":", "1", "}">>, <<"5">>}

\* a text made of digits, one hyphen and digits
IsRangeLiteral(s) ==
  \E k \in 2..(Len(s) - 1) :
    /\ s[k] = "-"
    /\ \A i \in DOMAIN s \ {k} : \E d \in 0..9 : <<s[i]>> = numberToString(d)

Violation(cond, type, message, field, i, entity) ==
  IF cond THEN {[type |-> type, message |-> message, field |-> field,
                 rowIndex |-> i - 1, entity |-> entity]}
  ELSE {}

ClientViolations(i) ==
  LET c == clients[i] IN
  Violation(c.ClientID = <<>>, "error", Msg("Missing ClientID"), "ClientID", i, "client")
  \cup Violation(c.ClientName = <<>>, "error", Msg("Missing ClientName"), "ClientName", i, "client")
  \cup Violation(\E j \in 1..(i - 1) : clients[j].ClientID = c.ClientID, "error",
                 MsgS("Duplicate ClientID: ", <<c.ClientID>>), "ClientID", i, "client")
  \cup Violation(c.PriorityLevel \notin 1..5, "error",
                 Msg("PriorityLevel must be between 1-5"), "PriorityLevel", i, "client")
  \cup Violation(c.RequestedTaskIDs.kind # "list", "error",
                 Msg("RequestedTaskIDs must be an array"), "RequestedTaskIDs", i, "client")
  \cup Violation(c.AttributesJSON.kind = "str" /\ c.AttributesJSON.str \notin ValidJSONTexts,
                 "error", Msg("Invalid JSON in AttributesJSON"), "AttributesJSON", i, "client")

WorkerViolations(i) ==
  LET w == workers[i]
      slots == w.AvailableSlots
      length == IF slots.kind = "list" THEN Len(slots.items) ELSE Len(slots.str)
  IN
  Violation(w.WorkerID = <<>>, "error", Msg("Missing WorkerID"), "WorkerID", i, "worker")
  \cup Violation(w.WorkerName = <<>>, "error", Msg("Missing WorkerName"), "WorkerName", i, "worker")
  \cup Violation(\E j \in 1..(i - 1) : workers[j].WorkerID = w.WorkerID, "error",
                 MsgS("Duplicate WorkerID: ", <<w.WorkerID>>), "WorkerID", i, "worker")
  \cup Violation(w.Skills.kind # "list", "error", Msg("Skills must be an array"),
                 "Skills", i, "worker")
  \cup Violation(slots.kind # "list", "error", Msg("AvailableSlots must be an array"),
                 "AvailableSlots", i, "worker")
  \cup Violation(slots.kind = "list" /\ \E k \in DOMAIN slots.items : slots.items[k] < 1,
                 "error", Msg("AvailableSlots must contain positive integers"),
                 "AvailableSlots", i, "worker")
  \cup Violation(w.MaxLoadPerPhase < 1, "error",
                 Msg("MaxLoadPerPhase must be a positive integer"), "MaxLoadPerPhase", i, "worker")
  \cup Violation(slots.kind \in {"list", "str"} /\ length < w.MaxLoadPerPhase, "warning",
                 Msg("Worker has more max load than available slots"),
                 "MaxLoadPerPhase", i, "worker")

TaskViolations(i) ==
  LET t == tasks[i] IN
  Violation(t.TaskID = <<>>, "error", Msg("Missing TaskID"), "TaskID", i, "task")
  \cup Violation(t.TaskName = <<>>, "error", Msg("Missing TaskName"), "TaskName", i, "task")
  \cup Violation(\E j \in 1..(i - 1) : tasks[j].TaskID = t.TaskID, "error",
                 MsgS("Duplicate TaskID: ", <<t.TaskID>>), "TaskID", i, "task")
  \cup Violation(t.Duration < 1, "error", Msg("Duration must be a positive integer"),
                 "Duration", i, "task")
  \cup Violation(t.RequiredSkills.kind # "list", "error",
                 Msg("RequiredSkills must be an array"), "RequiredSkills", i, "task")
  \cup Violation(t.MaxConcurrent < 1, "error",
                 Msg("MaxConcurrent must be a positive integer"), "MaxConcurrent", i, "task")
  \cup Violation(t.PreferredPhases.kind = "str" /\ ~IsRangeLiteral(t.PreferredPhases.str),
                 "error", Msg("Invalid PreferredPhases format"), "PreferredPhases", i, "task")
  \cup Violation(t.PreferredPhases.kind \notin {"str", "list"}, "error",
                 Msg("PreferredPhases must be an array or range string"),
                 "PreferredPhases", i, "task")

\* positions in the returned list of the per-entity issues of one row
RowIssues(entity, i) ==
  {n \in DOMAIN result : /\ IsPerEntity(result[n])
                         /\ result[n].entity = entity /\ result[n].rowIndex = i - 1}
RowAsChecked(entity, i, violations) ==
  /\ {Content(result[n]) : n \in RowIssues(entity, i)} = violations
  /\ Cardinality(RowIssues(entity, i)) = Cardinality(violations)

\* C3: per-entity checks do not short-circuit: in the returned list the issues of
\* each client, worker and task row are exactly the violations of that row, one
\* issue per violated check, whether or not the row lacks or duplicates its ID.
C3_NoShortCircuit ==
  Returned =>
    /\ \A i \in DOMAIN clients : RowAsChecked("client", i, ClientViolations(i))
    /\ \A i \in DOMAIN workers : RowAsChecked("worker", i, WorkerViolations(i))
    /\ \A i \in DOMAIN tasks : RowAsChecked("task", i, TaskViolations(i))

C3_Witness ==
  /\ Returned
  /\ \E i \in DOMAIN clients :
       /\ clients[i].ClientID = <<>>
       /\ Cardinality(RowIssues("client", i)) = 5

DuplicateText(entity) ==
  CASE entity = "client" -> "Duplicate ClientID: "
    [] entity = "worker" -> "Duplicate WorkerID: "
    [] OTHER -> "Duplicate TaskID: "
IdsOf(entity) ==
  CASE entity = "client" -> [i \in DOMAIN clients |-> clients[i].ClientID]
    [] entity = "worker" -> [i \in DOMAIN workers |-> workers[i].WorkerID]
    [] OTHER -> [i \in DOMAIN tasks |-> tasks[i].TaskID]
IsDuplicateIssue(issue, entity) ==
  issue.entity = entity /\ issue.message.text = DuplicateText(entity)
\* the duplicate errors the returned list holds for identifier v of an entity type
DuplicateIssues(entity, v) ==
  {n \in DOMAIN result : IsDuplicateIssue(result[n], entity) /\ result[n].message.strs = <<v>>}
Occurrences(entity, v) == {i \in DOMAIN IdsOf(entity) : IdsOf(entity)[i] = v}
Min(S) == CHOOSE x \in S : \A y \in S : x <= y

\* C4: for each entity type and each identifier occurring k times, the returned list
\* holds exactly k-1 duplicate errors for it, one at the row index of each
\* occurrence after the first and none at the first.
C4_DuplicateCount ==
  Returned =>
    \A entity \in {"client", "worker", "task"} :
      /\ \A v \in Range(IdsOf(entity)) :
           LET occ == Occurrences(entity, v)
               dup == DuplicateIssues(entity, v)
           IN /\ Cardinality(dup) = Cardinality(occ) - 1
              /\ {result[n].rowIndex + 1 : n \in dup} = occ \ {Min(occ)}
              /\ \A n \in dup : result[n].type = "error"
      /\ \A n \in DOMAIN result :
           IsDuplicateIssue(result[n], entity) =>
             \E v \in Range(IdsOf(entity)) : n \in DuplicateIssues(entity, v)

C4_Witness ==
  /\ Returned
  /\ \E v \in Range(IdsOf("client")) :
       Cardinality(Occurrences("client", v)) = 3 /\ Cardinality(DuplicateIssues("client", v)) = 2

UnknownText == "Unknown task references: "
\* positions of the 'Unknown task references' issues of client row i
UnknownIssues(i) ==
  {n \in DOMAIN result : /\ result[n].message.text = UnknownText
                         /\ result[n].entity = "client" /\ result[n].rowIndex = i - 1}
IsTaskID(id) == \E t \in DOMAIN tasks : tasks[t].TaskID = id
NotTaskID(id) == ~IsTaskID(id)

\* C5: for every client whose RequestedTaskIDs is a list the returned list holds
\* exactly one 'Unknown task references' error (field RequestedTaskIDs, entity
\* client, the client's row index) when some requested id is the TaskID of no task,
\* listing exactly the unknown ids, and none when every requested id is a TaskID of
\* some task, at whatever position.
C5_UnknownTaskRefs ==
  Returned =>
    /\ \A i \in DOMAIN clients :
         clients[i].RequestedTaskIDs.kind = "list" =>
           LET requested == clients[i].RequestedTaskIDs.items
               unknown == SelectSeq(requested, NotTaskID)
           IN IF unknown = <<>> THEN UnknownIssues(i) = {}
              ELSE /\ Cardinality(UnknownIssues(i)) = 1
                   /\ \A n \in UnknownIssues(i) :
                        /\ result[n].message.strs = unknown
                        /\ result[n].type = "error"
                        /\ result[n].field = "RequestedTaskIDs"
    /\ \A n \in DOMAIN result :
         result[n].message.text = UnknownText =>
           \E i \in DOMAIN clients :
             n \in UnknownIssues(i) /\ clients[i].RequestedTaskIDs.kind = "list"

C5_Witness ==
  /\ Returned
  /\ Len(tasks) = 2
  /\ \E i \in DOMAIN clients :
       /\ clients[i].RequestedTaskIDs.kind = "list"
       /\ \E a, b \in DOMAIN clients[i].RequestedTaskIDs.items :
            /\ clients[i].RequestedTaskIDs.items[a] = tasks[2].TaskID
            /\ tasks[1].TaskID # tasks[2].TaskID
            /\ NotTaskID(clients[i].RequestedTaskIDs.items[b])
       /\ Cardinality(UnknownIssues(i)) = 1
  /\ \E i \in DOMAIN clients :
       /\ clients[i].RequestedTaskIDs.kind = "list"
       /\ clients[i].RequestedTaskIDs.items # <<>>
       /\ UnknownIssues(i) = {}

UnmetText == "No workers have required skills: "
UnmetIssues(i) ==
  {n \in DOMAIN result : /\ result[n].message.text = UnmetText
                         /\ result[n].entity = "task" /\ result[n].rowIndex = i - 1}
\* a worker possesses the skills its Skills list holds; a worker whose Skills is a
\* bare string holds that one string
Possesses(w, skill) ==
  \/ w.Skills.kind = "list" /\ skill \in Range(w.Skills.items)
  \/ w.Skills.kind = "str" /\ w.Skills.str = skill
Unmet(skill) == ~\E w \in DOMAIN workers : Possesses(workers[w], skill)

\* C6: for every task whose RequiredSkills is a list the returned list holds
\* exactly one 'No workers have required skills' error (field RequiredSkills,
\* entity task, the task's row index) when some required skill is possessed by no
\* worker of the dataset, listing exactly the unmet skills, and none when every
\* required skill is possessed by some worker.
C6_UnmetSkills ==
  Returned =>
    /\ \A i \in DOMAIN tasks :
         tasks[i].RequiredSkills.kind = "list" =>
           LET unmet == SelectSeq(tasks[i].RequiredSkills.items, Unmet)
           IN IF unmet = <<>> THEN UnmetIssues(i) = {}
              ELSE /\ Cardinality(UnmetIssues(i)) = 1
                   /\ \A n \in UnmetIssues(i) :
                        /\ result[n].message.strs = unmet
                        /\ result[n].type = "error"
                        /\ result[n].field = "RequiredSkills"
    /\ \A n \in DOMAIN result :
         result[n].message.text = UnmetText =>
           \E i \in DOMAIN tasks :
             n \in UnmetIssues(i) /\ tasks[i].RequiredSkills.kind = "list"

C6_Witness ==
  /\ Returned
  /\ Len(workers) = 2
  /\ \E i \in DOMAIN tasks :
       /\ tasks[i].RequiredSkills.kind = "list"
       /\ \E a, b \in DOMAIN tasks[i].RequiredSkills.items :
            /\ Possesses(workers[2], tasks[i].RequiredSkills.items[a])
            /\ ~Possesses(workers[1], tasks[i].RequiredSkills.items[a])
            /\ Unmet(tasks[i].RequiredSkills.items[b])
       /\ Cardinality(UnmetIssues(i)) = 1
  /\ \E i \in DOMAIN tasks :
       /\ tasks[i].RequiredSkills.kind = "list"
       /\ tasks[i].RequiredSkills.items # <<>>
       /\ UnmetIssues(i) = {}

RECURSIVE SumOver(_, _)
SumOver(S, f) ==
  IF S = {} THEN 0
  ELSE LET x == CHOOSE y \in S : TRUE IN f[x] + SumOver(S \ {x}, f)

Count(seq, x) == Cardinality({k \in DOMAIN seq : seq[k] = x})
ListsPhase(t, p) == t.PreferredPhases.kind = "list" /\ p \in Range(t.PreferredPhases.items)
\* the phases of the explicit PreferredPhases lists
DemandPhases ==
  UNION {Range(tasks[i].PreferredPhases.items) : i \in {j \in DOMAIN tasks : isArray(tasks[j].PreferredPhases)}}
\* demand of a phase, every task that lists it counted once
DemandOnce(p) ==
  LET duration == [i \in DOMAIN tasks |-> tasks[i].Duration]
  IN SumOver({i \in DOMAIN tasks : ListsPhase(tasks[i], p)}, duration)
\* demand of a phase, a task counted once for each time its list names the phase
DemandPerEntry(p) ==
  LET weighted == [i \in DOMAIN tasks |->
                    tasks[i].Duration * Count(tasks[i].PreferredPhases.items, p)]
  IN SumOver({i \in DOMAIN tasks : ListsPhase(tasks[i], p)}, weighted)
\* the supply validateCapacityConstraints records for a phase, 0 when it records none
Supply(p) == MapGetOr0(phaseSlots, p)
CapacityIssues(p) ==
  {n \in DOMAIN result : IsCapacity(result[n]) /\ result[n].message.nums[1] = p}

CapacityAsDemanded(demand) ==
  /\ \A p \in DemandPhases :
       IF demand[p] > Supply(p)
       THEN /\ Cardinality(CapacityIssues(p)) = 1
            /\ \A n \in CapacityIssues(p) :
                 /\ result[n].type = "warning"
                 /\ result[n].message.nums = <<p, demand[p], Supply(p)>>
       ELSE CapacityIssues(p) = {}
  /\ \A n \in DOMAIN result :
       IsCapacity(result[n]) => result[n].message.nums[1] \in DemandPhases

\* C7 as claimed: one warning for each phase of an explicit PreferredPhases list
\* whose demand, the sum of Duration of the tasks listing the phase, is strictly
\* greater than the recorded supply, stating phase, demand and supply; nothing for
\* a phase whose demand is at most its supply.
C7_DemandOncePerTask == Returned => CapacityAsDemanded([p \in DemandPhases |-> DemandOnce(p)])

\* C7 as amended: the same, the demand of a phase being the sum of Duration over
\* every entry of the explicit PreferredPhases lists that names the phase (a task
\* naming the phase twice counts twice).
C7_DemandPerEntry == Returned => CapacityAsDemanded([p \in DemandPhases |-> DemandPerEntry(p)])

C7_Witness ==
  /\ Returned
  /\ \E p, q \in DemandPhases :
       /\ DemandPerEntry(p) > Supply(p) /\ Supply(p) > 0 /\ Cardinality(CapacityIssues(p)) = 1
       /\ DemandPerEntry(q) = Supply(q) /\ CapacityIssues(q) = {}
  /\ \E i \in DOMAIN tasks : \E p \in DemandPhases : Count(tasks[i].PreferredPhases.items, p) = 2

OffersPhase(w, p) == w.AvailableSlots.kind = "list" /\ p \in Range(w.AvailableSlots.items)
SlotPhases ==
  UNION {Range(workers[i].AvailableSlots.items) : i \in {j \in DOMAIN workers : isArray(workers[j].AvailableSlots)}}
SupplyOnce(p) ==
  LET load == [i \in DOMAIN workers |-> workers[i].MaxLoadPerPhase]
  IN SumOver({i \in DOMAIN workers : OffersPhase(workers[i], p)}, load)

\* C8: the supply the capacity check records for a phase is the sum of
\* MaxLoadPerPhase over the workers whose AvailableSlots includes the phase, each
\* such worker counted once, also when a worker lists the phase more than once.
C8_SupplyOncePerWorker ==
  calls > 0 => \A p \in SlotPhases : MapHas(phaseSlots, p) /\ MapGet(phaseSlots, p) = SupplyOnce(p)

\* C9: the issue list of the web-worker path has the same content (severity,
\* entity, field, rowIndex, message) as the list validateAll returns on the same
\* collections.
C9_WorkerPathAgrees ==
  (Returned /\ workerOutcome = "returned") => Contents(validationErrors) = Contents(result)

\* C10: a further validateAll call on the same validator with unchanged collections
\* returns a list of the same length with the same issues (severity, message,
\* field, rowIndex, entity) in the same order as the call before it; nothing of the
\* earlier call is accumulated.
C10_Idempotent ==
  [][(Returned /\ outcome' = "returned" /\ calls' = calls + 1)
       => /\ Len(result') = Len(result)
          /\ Contents(result') = Contents(result)]_vars

C10_Witness ==
  /\ Returned /\ calls = MaxCalls
  /\ Len(result) >= 3
  /\ \E n \in DOMAIN result : result[n].id[2] > Len(result)

\* C11: a validateAll call leaves the three collections as they were given (same
\* rows, same order, same field values), and every list an earlier call returned
\* still holds, after a later call, the issues it held when it was returned.
C11_FrameAndReturnedLists ==
  [][/\ <<clients, workers, tasks>>' = <<clients, workers, tasks>>
     /\ \A k \in DOMAIN returned : arrays'[returned[k].ref] = returned[k].issues]_vars

C11_Witness ==
  /\ Len(returned) = 2
  /\ returned[1].issues # <<>>
  /\ returned[1].ref # returned[2].ref
  /\ arrays[returned[1].ref] = returned[1].issues
  /\ Len(clients) + Len(workers) + Len(tasks) > 0

\* C12: in a list validateAll returned no two issues carry the same id.
C12_UniqueIds ==
  Returned => \A i, j \in DOMAIN result : i # j => result[i].id # result[j].id

\* C20: for every client row, a returned list holds a 'PriorityLevel must be
\* between 1-5' error for that row exactly when the row's PriorityLevel lies
\* outside 1..5 (0 and 6 are reported, 1 and 5 are not), and never twice.
PriorityText == "PriorityLevel must be between 1-5"
PriorityIssues(i) ==
  {n \in DOMAIN result : /\ result[n].message = Msg(PriorityText)
                          /\ result[n].type = "error"
                          /\ result[n].field = "PriorityLevel"
                          /\ result[n].entity = "client"
                          /\ result[n].rowIndex = i - 1}
C20_PriorityBoundary ==
  Returned =>
    \A i \in DOMAIN clients :
      /\ Cardinality(PriorityIssues(i)) = IF clients[i].PriorityLevel \in 1..5 THEN 0 ELSE 1
      /\ clients[i].PriorityLevel \in {0, 6} => PriorityIssues(i) # {}
      /\ clients[i].PriorityLevel \in {1, 5} => PriorityIssues(i) = {}

C20_Witness ==
  /\ Returned
  /\ \E i, j \in DOMAIN clients :
        /\ clients[i].PriorityLevel = 6 /\ PriorityIssues(i) # {}
        /\ clients[j].PriorityLevel = 3 /\ PriorityIssues(j) = {}
  /\ \A n \in DOMAIN result : result[n].message.text = PriorityText

(***************************************************************************)
(* Schema inference                                                        *)
(***************************************************************************)
Detected == "detect" \in steps
Lowered == {toLowerCase(headers[i]) : i \in DOMAIN headers}
HasClientMarker == \E h \in Lowered : h \in clientIndicators
HasWorkerMarker == \E h \in Lowered : h \in workerIndicators
HasTaskMarker == \E h \in Lowered : h \in taskIndicators

\* C13: the detected type is client when a client marker is among the headers,
\* else worker when a worker marker is, else task when a task marker is, and
\* client when no marker is; so headers with markers of several types resolve to
\* the first of client, worker, task.
C13_FirstMatchWins ==
  Detected =>
    /\ HasClientMarker => entityType = "client"
    /\ (~HasClientMarker /\ HasWorkerMarker) => entityType = "worker"
    /\ (~HasClientMarker /\ ~HasWorkerMarker /\ HasTaskMarker) => entityType = "task"
    /\ (~HasClientMarker /\ ~HasWorkerMarker /\ ~HasTaskMarker) => entityType = "client"

C13_Witness ==
  /\ Detected
  /\ HasClientMarker /\ HasWorkerMarker
  /\ toLowerCase(headers[1]) \in workerIndicators
  /\ entityType = "client"

\* the keyword sets of the three types, in normalized form
ClientKeywords == {<<"c", "l", "i", "e", "n", "t", "i", "d">>, <<"p", "r", "i", "o", "r", "i", "t", "y", "l", "e", "v", "e", "l">>, <<"r", "e", "q", "u", "e", "s", "t", "e", "d", "t", "a", "s", "k", "i", "d", "s">>}
WorkerKeywords == {<<"w", "o", "r", "k", "e", "r", "i", "d">>, <<"s", "k", "i", "l", "l", "s">>, <<"a", "v", "a", "i", "l", "a", "b", "l", "e", "s", "l", "o", "t", "s">>, <<"m", "a", "x", "l", "o", "a", "d", "p", "e", "r", "p", "h", "a", "s", "e">>,
                   <<"w", "o", "r", "k", "e", "r", "g", "r", "o", "u", "p">>}
TaskKeywords == {<<"t", "a", "s", "k", "i", "d">>, <<"d", "u", "r", "a", "t", "i", "o", "n">>, <<"r", "e", "q", "u", "i", "r", "e", "d", "s", "k", "i", "l", "l", "s">>, <<"p", "r", "e", "f", "e", "r", "r", "e", "d", "p", "h", "a", "s", "e", "s">>,
                 <<"m", "a", "x", "c", "o", "n", "c", "u", "r", "r", "e", "n", "t">>}
Normalized(s) == SelectSeq(toLowerCase(s), LAMBDA c : c # "_" /\ c \notin WhitespaceChars)
NormalizedHeaders == {Normalized(headers[i]) : i \in DOMAIN headers}
TypeOfNormalized(hs) ==
  IF hs \cap ClientKeywords # {} THEN "client"
  ELSE IF hs \cap WorkerKeywords # {} THEN "worker"
  ELSE IF hs \cap TaskKeywords # {} THEN "task"
  ELSE "client"

\* C14: the detected type depends on the headers' normalized forms only
\* (lowercase, underscores and whitespace stripped), and a header whose
\* normalized form is a keyword of a type counts as that keyword.
C14_NormalizedMatching ==
  Detected => entityType = TypeOfNormalized(NormalizedHeaders)

\* C15: the fallback mapping has the canonical field F of the detected type
\* exactly when some header equals F after normalization; its value is then the
\* first such header of the header row; it has no other key; and the two
\* fallback implementations return the same mapping.
Keys(m) == {m[i][1] : i \in DOMAIN m}
ValueOf(m, k) == m[CHOOSE i \in DOMAIN m : m[i][1] = k][2]
Matches(F) == {i \in DOMAIN headers : Normalized(headers[i]) = Normalized(F)}
MappingAsClaimed(m) ==
  /\ \A i, j \in DOMAIN m : m[i][1] = m[j][1] => i = j
  /\ Keys(m) \subseteq Range(getExpectedHeaders(entityType))
  /\ \A F \in Range(getExpectedHeaders(entityType)) :
       /\ F \in Keys(m) <=> Matches(F) # {}
       /\ F \in Keys(m) => /\ ValueOf(m, F) = headers[Min(Matches(F))]
                           /\ ValueOf(m, F) \in Range(headers)
C15_FallbackMapping ==
  /\ "map" \in steps => MappingAsClaimed(mapping)
  /\ "serviceMap" \in steps => MappingAsClaimed(serviceMapping)
  /\ {"map", "serviceMap"} \subseteq steps => mapping = serviceMapping

C15_Witness ==
  /\ {"map", "serviceMap"} \subseteq steps
  /\ headers = <<<<"c", "l", "i", "e", "n", "t", "_", "i", "d">>, <<"C", "l", "i", "e", "n", "t", "I", "D">>>>
  /\ mapping = << <<<<"C", "l", "i", "e", "n", "t", "I", "D">>, <<"c", "l", "i", "e", "n", "t", "_", "i", "d">>>> >>
  /\ serviceMapping = mapping

(***************************************************************************)
(* Field coercion                                                          *)
(***************************************************************************)
Raw == IF cell.present THEN cell.text ELSE <<>>
\* the cell text without the whitespace around it
Trimmed ==
  LET inside == {i \in DOMAIN Raw : Raw[i] \notin WhitespaceChars}
  IN IF inside = {} THEN <<>>
     ELSE SubSeq(Raw, Min(inside), CHOOSE i \in inside : \A j \in inside : j <= i)
ScalarRange == -12..12

\* C16: a cell that is the text of an integer (0 and negative ones included) is
\* coerced to that integer as an integer scalar field; the default 1 is given only
\* to a cell that does not start with an integer.
Unsigned == IF Trimmed # <<>> /\ Head(Trimmed) = "+" THEN Tail(Trimmed) ELSE Trimmed
StartsWithInteger ==
  \E k \in 1..Len(Unsigned) : \E n \in ScalarRange : SubSeq(Unsigned, 1, k) = numberToString(n)
C16_ScalarParsedOrDefault ==
  "scalar" \in steps =>
    /\ \A n \in ScalarRange : Trimmed = numberToString(n) => coercedScalar = Num(n)
    /\ ~StartsWithInteger => coercedScalar = Num(1)

\* C17: a PreferredPhases cell that is not a range literal is coerced either to a
\* non-empty list of coercedSlots or to the raw string itself; never to an empty list.
C17_NeverEmptyList ==
  ("phases" \in steps /\ ~IsRangeLiteral(Trimmed)) =>
    \/ coercedPhases.kind = "list" /\ coercedPhases.items # <<>>
    \/ coercedPhases.kind = "str" /\ coercedPhases.str = Trimmed

\* C18: a PreferredPhases cell whose trimmed text is digits, a hyphen, digits is
\* coerced to that same text as a string, never to a list.
C18_RangePreserved ==
  ("phases" \in steps /\ IsRangeLiteral(Trimmed)) =>
    /\ coercedPhases.kind = "str"
    /\ coercedPhases.str = Trimmed

C18_Witness ==
  /\ "phases" \in steps
  /\ cell.present /\ cell.text = <<" ", "2", "-", "5", " ">>
  /\ coercedPhases.kind = "str" /\ coercedPhases.str = <<"2", "-", "5">>

\* C19: for every list L of integers, the cell holding L's comma-separated text
\* and the cell holding L's JSON array text are both coerced, as AvailableSlots,
\* to L in order.
C19_BothConventions ==
  "numbers" \in steps =>
    \A L \in IntLists :
      (cell.present /\ cell.text \in {CommaText(L), JSONText(L)}) =>
        /\ coercedSlots.kind = "list"
        /\ coercedSlots.items = L

C19_Witness ==
  /\ "numbers" \in steps
  /\ cell.present /\ cell.text = JSONText(<<10, -1>>)
  /\ coercedSlots.kind = "list" /\ coercedSlots.items = <<10, -1>>

(***************************************************************************)
(* Worker load, range strings, phase formats                               *)
(***************************************************************************)
\* C21: for every worker row whose AvailableSlots is a list, a returned list holds
\* the issue 'Worker has more max load than available slots' for that row, as a
\* warning, exactly when the list has fewer entries than MaxLoadPerPhase.
OverloadText == "Worker has more max load than available slots"
OverloadIssues(i) ==
  {n \in DOMAIN result : /\ result[n].message = Msg(OverloadText)
                          /\ result[n].entity = "worker"
                          /\ result[n].rowIndex = i - 1}
C21_OverloadWarning ==
  Returned =>
    \A i \in DOMAIN workers :
      isArray(workers[i].AvailableSlots) =>
        /\ Cardinality(OverloadIssues(i)) =
             IF Len(workers[i].AvailableSlots.items) < workers[i].MaxLoadPerPhase THEN 1 ELSE 0
        /\ \A n \in OverloadIssues(i) :
             result[n].type = "warning" /\ result[n].field = "MaxLoadPerPhase"

C21_Witness ==
  /\ Returned
  /\ \E i, j \in DOMAIN workers :
        /\ workers[i].AvailableSlots = List(<<1, 2>>) /\ workers[i].MaxLoadPerPhase = 4
        /\ OverloadIssues(i) # {}
        /\ workers[j].AvailableSlots = List(<<1>>) /\ workers[j].MaxLoadPerPhase = 1
        /\ OverloadIssues(j) = {}

\* C22: a task whose PreferredPhases is a range string adds to no phase's
\* demand: the capacity warnings of a returned list are those the capacity check
\* gives for the same collections with every such task removed, whatever the
\* Duration of the removed tasks.
IsRangeTask(t) == t.PreferredPhases.kind = "str" /\ IsRangeLiteral(t.PreferredPhases.str)
WithoutRangeTasks == SelectSeq(tasks, LAMBDA t : ~IsRangeTask(t))
CapacityPart(issues) == SelectSeq(issues, IsCapacity)
CapacityWithoutRangeTasks ==
  capacityFrom([errors |-> <<>>, threw |-> FALSE], phaseDemandFrom(<<>>, WithoutRangeTasks)).errors
C22_RangeTasksNoDemand ==
  Returned => Contents(CapacityPart(result)) = Contents(CapacityWithoutRangeTasks)

C22_Witness ==
  /\ Returned
  /\ Len(tasks) = 2
  /\ \E i \in DOMAIN tasks : IsRangeTask(tasks[i]) /\ tasks[i].Duration = 5
  /\ Supply(1) \in 1..4
  /\ Len(CapacityPart(result)) = 1
  /\ WithoutRangeTasks # tasks

\* C23: in a returned list a task row has the issue 'Invalid PreferredPhases
\* format' exactly when its PreferredPhases is a string that is not digits, a
\* hyphen, digits; it has 'PreferredPhases must be an array or range string'
\* exactly when its PreferredPhases is neither a string nor a list; it has no
\* issue on the field PreferredPhases when that is a list or a range string.  And
\* when the parser stored the trimmed cell text itself as PreferredPhases of an
\* ingested task, and that text is no range string, the row has the format issue.
FormatText == "Invalid PreferredPhases format"
ShapeText == "PreferredPhases must be an array or range string"
PhaseIssues(i, text) ==
  {n \in DOMAIN result : /\ result[n].message = Msg(text)
                          /\ result[n].type = "error"
                          /\ result[n].field = "PreferredPhases"
                          /\ result[n].entity = "task"
                          /\ result[n].rowIndex = i - 1}
IssuesOnPhases(i) ==
  {n \in DOMAIN result : /\ result[n].field = "PreferredPhases"
                          /\ result[n].entity = "task"
                          /\ result[n].rowIndex = i - 1}
\* a text without the whitespace around it
Trim(s) ==
  LET inside == {i \in DOMAIN s : s[i] \notin WhitespaceChars}
  IN IF inside = {} THEN <<>>
     ELSE SubSeq(s, CHOOSE i \in inside : \A j \in inside : i <= j,
                 CHOOSE i \in inside : \A j \in inside : j <= i)
\* the trimmed text of the data row under the header mapped to an expected header
RawText(expected) ==
  IF expected \in Keys(mapping) /\ hasKey(rawRow, ValueOf(mapping, expected))
  THEN Trim(valueAt(rawRow, ValueOf(mapping, expected)))
  ELSE <<>>
Ingested(type) == steps = {"enhanced"} /\ entityType = type
PassedThrough ==
  /\ Ingested("task")
  /\ tasks[1].PreferredPhases = Str(RawText(<<"P", "r", "e", "f", "e", "r", "r", "e", "d", "P", "h", "a", "s", "e", "s">>))
  /\ ~IsRangeLiteral(RawText(<<"P", "r", "e", "f", "e", "r", "r", "e", "d", "P", "h", "a", "s", "e", "s">>))
C23_PhaseShapes ==
  Returned =>
    /\ \A i \in DOMAIN tasks :
         /\ PhaseIssues(i, FormatText) # {} <=>
              /\ tasks[i].PreferredPhases.kind = "str"
              /\ ~IsRangeLiteral(tasks[i].PreferredPhases.str)
         /\ PhaseIssues(i, ShapeText) # {} <=>
              tasks[i].PreferredPhases.kind \notin {"str", "list"}
         /\ \/ tasks[i].PreferredPhases.kind = "list"
            \/ /\ tasks[i].PreferredPhases.kind = "str"
               /\ IsRangeLiteral(tasks[i].PreferredPhases.str)
            => IssuesOnPhases(i) = {}
    /\ PassedThrough => PhaseIssues(1, FormatText) # {}

C23_Witness ==
  /\ Returned
  /\ PassedThrough
  /\ RawText(<<"P", "r", "e", "f", "e", "r", "r", "e", "d", "P", "h", "a", "s", "e", "s">>) = <<"a", "b", "c">>
  /\ Cardinality(PhaseIssues(1, FormatText)) = 1

\* C24: whatever the data row (malformed JSON, text that is no number, a missing
\* or unmapped column), either parser makes a record of it and nothing raises: every
\* string-list field of the record is a list, every integer-list field is a list of
\* integers, every integer scalar field is an integer; an integer-list cell that is
\* no JSON array and holds no digit gives the empty list, and so does an empty cell
\* for a string list.
Parsed(type) == steps # {} /\ entityType = type
IsStringList(v) == v.kind = "list" /\ \A i \in DOMAIN v.items : DOMAIN v.items[i] = 1..Len(v.items[i])
IsIntegerList(v) == v.kind = "list" /\ \A i \in DOMAIN v.items : v.items[i] \in Int
IsIntegerValue(v) == v.kind = "num" /\ v.num \in Int
NoNumberIn(s) == \A i \in DOMAIN s : s[i] # "[" /\ \A d \in 0..9 : <<s[i]>> # numberToString(d)
C24_CoercionTotal ==
  /\ steps # {} => record # NoRecord
  /\ Parsed("client") =>
       IsIntegerValue(record.PriorityLevel) /\ IsStringList(record.RequestedTaskIDs)
  /\ Parsed("worker") =>
       /\ IsStringList(record.Skills) /\ IsIntegerList(record.AvailableSlots)
       /\ IsIntegerValue(record.MaxLoadPerPhase) /\ IsIntegerValue(record.QualificationLevel)
  /\ Parsed("task") =>
       /\ IsIntegerValue(record.Duration) /\ IsIntegerValue(record.MaxConcurrent)
       /\ IsStringList(record.RequiredSkills)
  /\ (Ingested("worker") /\ NoNumberIn(RawText(<<"A", "v", "a", "i", "l", "a", "b", "l", "e", "S", "l", "o", "t", "s">>))) =>
       record.AvailableSlots = List(<<>>)
  /\ (Ingested("worker") /\ RawText(<<"S", "k", "i", "l", "l", "s">>) = <<>>) => record.Skills = List(<<>>)

C24_Witness ==
  /\ Ingested("client")
  /\ RawText(<<"R", "e", "q", "u", "e", "s", "t", "e", "d", "T", "a", "s", "k", "I", "D", "s">>) = <<"[", "1", ",", "2">>
  /\ record.RequestedTaskIDs = List(<<<<"[", "1">>, <<"2">>>>)
  /\ record.PriorityLevel = Num(3)

\* C25: parsePhaseRange of the text "s-e", s and e non-negative integers, is the
\* list s, s+1, ..., e (e-s+1 entries) when s <= e and the empty list when s > e; a
\* list handed to it comes back as it is.
Expanded == expanded # NoRecord
C25_InclusiveRange ==
  Expanded =>
    /\ \A first, last \in PhaseNumbers :
         phasesArg = Str(RangeText(first, last)) =>
           /\ expanded.kind = "list"
           /\ Len(expanded.items) = IF first <= last THEN last - first + 1 ELSE 0
           /\ \A i \in DOMAIN expanded.items : expanded.items[i] = first + i - 1
    /\ phasesArg.kind = "list" => expanded = phasesArg

C25_Witness ==
  /\ Expanded
  /\ phasesArg = Str(<<"2", "-", "5">>)
  /\ expanded = List(<<2, 3, 4, 5>>)

\* C26: a promise returned by useWorker.postMessage that a response has settled
\* was settled by the response to its own request, whatever the order in which
\* requests are made and responses arrive.
SettledByResponse(i) == promises[i].state # "pending" /\ promises[i].by # 0
C26_OwnResponse ==
  \A i \in DOMAIN promises : SettledByResponse(i) => promises[i].by = i

\* C27: the worker has posted exactly one response for each message it has
\* handled, in order: VALIDATION_COMPLETE, PARSE_COMPLETE or TRANSFORM_COMPLETE with
\* success true for a message of that type whose handler does not raise, ERROR with
\* success false for an unknown type and for a handler that raises.
Raises(message) ==
  \/ message.type = "VALIDATE_DATA" /\ message.payload = "undefined"
  \/ message.type = "TRANSFORM_DATA" /\ message.payload = "undefined"
Expected(message) ==
  IF Raises(message) THEN Response("ERROR", FALSE)
  ELSE IF message.type = "VALIDATE_DATA" THEN Response("VALIDATION_COMPLETE", TRUE)
  ELSE IF message.type = "PARSE_FILE" THEN Response("PARSE_COMPLETE", TRUE)
  ELSE IF message.type = "TRANSFORM_DATA" THEN Response("TRANSFORM_COMPLETE", TRUE)
  ELSE Response("ERROR", FALSE)
ResponsesTo(k) == {n \in DOMAIN responses : responses[n].for = k}
C27_OneResponseEach ==
  /\ \A k \in 1..handled :
       /\ Cardinality(ResponsesTo(k)) = 1
       /\ \A n \in ResponsesTo(k) :
            Response(responses[n].type, responses[n].success) = Expected(requests[k])
  /\ \A n \in DOMAIN responses : responses[n].for \in 1..handled
  /\ \A n, o \in DOMAIN responses : n < o => responses[n].for < responses[o].for

C27_Witness ==
  /\ handled = 3
  /\ requests[1] = [type |-> "VALIDATE_DATA", payload |-> "undefined"]
  /\ requests[2] = [type |-> "UNKNOWN", payload |-> "data"]
  /\ requests[3] = [type |-> "TRANSFORM_DATA", payload |-> "data"]
  /\ Len(responses) = 3
  /\ responses[1].type = "ERROR" /\ responses[3].type = "TRANSFORM_COMPLETE"

\* C28: every run of validateData ends with isValidating false: whenever a run
\* is under way (the state is true while it awaits the worker) the state is
\* eventually false with no run under way, whichever way the run goes: the worker
\* answers, the worker fails and the main thread validates, the AI validation
\* fails, the validator raises.
Running == pc.at # "idle"
JSONDocuments ==
  ValidJSONTexts
  \cup {numberToString(n) : n \in ScalarRange}
  \cup {JSONText(L) : L \in IntLists}
  \cup {<<"[", " ", "]">>, <<"[", "\"", "a", "\"", "]">>, <<"[", "\"", "\"", "]">>, <<"[", "\"", "4", "\"", ",", " ", "5", "]">>, <<"[", "1", ",", " ", "2", "]">>}
AttributesText == "Invalid JSON in AttributesJSON"
AttributesIssues(i) ==
  {n \in DOMAIN result : /\ result[n].message = Msg(AttributesText)
                          /\ result[n].type = "error"
                          /\ result[n].field = "AttributesJSON"
                          /\ result[n].entity = "client"
                          /\ result[n].rowIndex = i - 1}
C29_AttributesJSON ==
  /\ Ingested("client") =>
       /\ record.AttributesJSON = Str(RawText(<<"A", "t", "t", "r", "i", "b", "u", "t", "e", "s", "J", "S", "O", "N">>))
       /\ clients = <<stored(record, "client")>>
  /\ Returned =>
       \A i \in DOMAIN clients :
         clients[i].AttributesJSON.kind = "str" =>
           /\ Cardinality(AttributesIssues(i)) =
                IF clients[i].AttributesJSON.str \in JSONDocuments THEN 0 ELSE 1
           /\ clients[i].AttributesJSON.str = <<>> => AttributesIssues(i) # {}

C29_Witness ==
  /\ Ingested("client")
  /\ Returned
  /\ <<"A", "t", "t", "r", "i", "b", "u", "t", "e", "s", "J", "S", "O", "N">> \notin Keys(mapping)
  /\ clients[1].AttributesJSON = Str(<<>>)
  /\ AttributesIssues(1) # {}

\* C30: DataCache never serves an expired entry.  For a key whose last set(k, v,
\* ttl), made at time t, was not followed by a delete of k or a clear: a get(k) at a
\* time up to t + ttl returns v and a has(k) returns true; at a later time get(k)
\* returns null, has(k) returns false, and after the call the map has no entry for
\* k.  For a key with no such set, get returns null and has false.  In every
\* state get(k) returns a value exactly when has(k) returns true.
Live(k, t) ==
  /\ written[k] # NoRecord
  /\ t <= written[k].timestamp + written[k].ttl
C30_NeverStale ==
  /\ lastOp.op = "get" =>
       /\ lastOp.result =
            IF Live(lastOp.key, lastOp.at) THEN written[lastOp.key].data ELSE Null
       /\ ~Live(lastOp.key, lastOp.at) => cache[lastOp.key] = NoRecord
  /\ lastOp.op = "has" =>
       /\ lastOp.result = Live(lastOp.key, lastOp.at)
       /\ ~Live(lastOp.key, lastOp.at) => cache[lastOp.key] = NoRecord
  /\ \A k \in CacheKeys : (get(k).result # Null) <=> has(k).result

\* an entry written with the default time-to-live, read after it has run out
C30_Witness ==
  /\ lastOp.op = "get"
  /\ written[lastOp.key] # NoRecord
  /\ written[lastOp.key].ttl = DEFAULT_TTL
  /\ lastOp.at > written[lastOp.key].timestamp + DEFAULT_TTL
  /\ lastOp.result = Null
  /\ cache[lastOp.key] = NoRecord

====
